---- MODULE Spec2Model ----
(***************************************************************************)
(* ShadowDiary main process: the image reference store (imageRefs.ts), the *)
(* IPC facade (main/index.ts) over the diary, archive and settings stores, *)
(* and the backup/restore pipeline (utils/dataTransfer.ts).                *)
(***************************************************************************)
EXTENDS Integers, Sequences, FiniteSets, TLC

(***************************************************************************)
(* Bounds of the model.                                                    *)
(***************************************************************************)
\* Longest rich-text field, counted in embedded image references.
MaxLen == 2
\* Largest ref_count a row of image_refs starts with in SpecSync.
MaxCount == 2

\* Most file-system or store operations of one transfer that fail on their own.
MaxFaults == 2

\* IPC invocations that can be in flight at once.
NumRequests == 2

\* Image ids (the uuid part of diary-image://{uuid}.{ext}).
ImageIds == {"A", "B"}
\* Ids of diary entries (randomUUID draws a fresh one from these).
EntryIds == {"e1", "e2"}
\* Ids of archives (uuidv4 draws a fresh one from these).
ArchiveIds == {"a1"}
\* Tag names.
TagNames == {"t1"}

(***************************************************************************)
(* Rich text, reduced to the image references it embeds.  A reference is   *)
(* diary-image://{id}.{ext} ("orig"), diary-image://{id}_thumb.webp        *)
(* ("thumb"), or a reference inside the span of a blocked tag such as      *)
(* <script>..</script> ("blocked"), which sanitizeDiaryHtml removes.       *)
(***************************************************************************)
StoredKinds == {"orig", "thumb"}
InputKinds == {"orig", "thumb", "blocked"}
StoredTokens == [id : ImageIds, kind : StoredKinds]
InputTokens == [id : ImageIds, kind : InputKinds]

SeqsUpTo(S, n) == UNION {[1..k -> S] : k \in 0..n}

InputContents == SeqsUpTo(InputTokens, MaxLen)
StoredContents == SeqsUpTo(StoredTokens, MaxLen)

\* sanitizeDiaryHtml: the span of a blocked tag is removed with what it holds.
sanitizeDiaryHtml(content) == SelectSeq(content, LAMBDA t : t.kind # "blocked")

\* extractImageIds: every match of the regex, in order, duplicates kept; the
\* optional _thumb suffix is outside the captured id.
RECURSIVE extractImageIds(_)
extractImageIds(html) ==
  IF html = <<>> THEN <<>>
  ELSE <<Head(html).id>> \o extractImageIds(Tail(html))

SeqRange(s) == {s[i] : i \in DOMAIN s}

\* normalizeImageIdSet: a Set in insertion order, i.e. the first occurrences.
RECURSIVE normalizeImageIdSet(_)
normalizeImageIdSet(ids) ==
  IF ids = <<>> THEN <<>>
  ELSE LET rest == normalizeImageIdSet(SelectSeq(Tail(ids), LAMBDA x : x # Head(ids)))
       IN  <<Head(ids)>> \o rest

\* collectImageIdsFromText: null/empty content gives the empty set.
collectImageIdsFromText(content) ==
  IF content = <<>> THEN <<>> ELSE normalizeImageIdSet(extractImageIds(content))

RECURSIVE Flatten(_)
Flatten(ss) == IF ss = <<>> THEN <<>> ELSE Head(ss) \o Flatten(Tail(ss))

\* collectImageIdsFromTexts: one Set over all the given texts.
collectImageIdsFromTexts(contents) ==
  normalizeImageIdSet(extractImageIds(Flatten(contents)))

(***************************************************************************)
(* image_refs: a table image_id -> ref_count.  A missing row is an id      *)
(* outside the domain.                                                     *)
(***************************************************************************)
EmptyRefs == [x \in {} |-> 0]

RefCount(t, id) == IF id \in DOMAIN t THEN t[id] ELSE 0

\* INSERT .. VALUES (?, 1, ?) ON CONFLICT DO UPDATE SET ref_count = ref_count + 1
upsertRef(t, id) ==
  [x \in DOMAIN t \cup {id} |-> IF x = id THEN RefCount(t, id) + 1 ELSE t[x]]

\* UPDATE .. SET ref_count = CASE WHEN ref_count > 0 THEN ref_count - 1 ELSE 0 END
decrementRef(t, id) ==
  [x \in DOMAIN t |-> IF x = id THEN (IF t[x] > 0 THEN t[x] - 1 ELSE 0) ELSE t[x]]

\* A mutant of deleteRef: the row is left in the table.
deleteRefKeepsRow(t, id) == t

\* DELETE FROM image_refs WHERE image_id = ?
deleteRef(t, id) == [x \in DOMAIN t \ {id} |-> t[x]]

\* One statement of the transaction: the failAt-th statement executed throws.
\* st = [t: table, rel: released so far, n: statements run, threw: BOOLEAN]
Stmt(st, failAt, t2) ==
  IF st.threw THEN st
  ELSE IF st.n + 1 = failAt THEN [st EXCEPT !.n = @ + 1, !.threw = TRUE]
  ELSE [st EXCEPT !.n = @ + 1, !.t = t2]

\* Body of the loop over removedIds: decrement, read back, delete and push.
ApplyRemoved(st, failAt, id) ==
  LET s1 == Stmt(st, failAt, decrementRef(st.t, id))
      s2 == Stmt(s1, failAt, s1.t)
      gone == (id \notin DOMAIN s2.t) \/ (s2.t[id] <= 0)
      s3 == IF gone THEN Stmt(s2, failAt, deleteRef(s2.t, id)) ELSE s2
  IN  IF gone /\ ~s3.threw THEN [s3 EXCEPT !.rel = Append(@, id)] ELSE s3

RECURSIVE ApplyAddedLoop(_, _, _)
ApplyAddedLoop(st, failAt, ids) ==
  IF ids = <<>> THEN st
  ELSE ApplyAddedLoop(Stmt(st, failAt, upsertRef(st.t, Head(ids))), failAt, Tail(ids))

RECURSIVE ApplyRemovedLoop(_, _, _)
ApplyRemovedLoop(st, failAt, ids) ==
  IF ids = <<>> THEN st
  ELSE ApplyRemovedLoop(ApplyRemoved(st, failAt, Head(ids)), failAt, Tail(ids))

\* A mutant of Transaction: the statements run outside any transaction, so
\* what ran before the throw stays written.
TransactionNoRollback(before, st) ==
  [refs |-> st.t, released |-> <<>>, threw |-> st.threw]

\* db.transaction(fn)(): commit on return, roll back and rethrow on a throw.
Transaction(before, st) ==
  IF st.threw
  THEN [refs |-> before, released |-> <<>>, threw |-> TRUE]
  ELSE [refs |-> st.t, released |-> st.rel, threw |-> FALSE]

\* A mutant of syncImageRefs: an id is released as soon as it is removed,
\* without reading its count back.
syncImageRefsEager(refs, oldIds, newIds, failAt) ==
  LET oldSet == normalizeImageIdSet(oldIds)
      newSet == normalizeImageIdSet(newIds)
      removedIds == SelectSeq(oldSet, LAMBDA id : id \notin SeqRange(newSet))
      addedIds == SelectSeq(newSet, LAMBDA id : id \notin SeqRange(oldSet))
      t1 == ApplyAddedLoop([t |-> refs, rel |-> <<>>, n |-> 0, threw |-> FALSE], 0, addedIds).t
  IN  [refs |-> [x \in DOMAIN t1 \ SeqRange(removedIds) |-> t1[x]],
       released |-> removedIds, threw |-> FALSE]

\* syncImageRefs(oldIds, newIds) on table refs; failAt = 0 is a run without
\* a failing statement.
syncImageRefs(refs, oldIds, newIds, failAt) ==
  LET oldSet == normalizeImageIdSet(oldIds)
      newSet == normalizeImageIdSet(newIds)
      addedIds == SelectSeq(newSet, LAMBDA id : id \notin SeqRange(oldSet))
      removedIds == SelectSeq(oldSet, LAMBDA id : id \notin SeqRange(newSet))
      st0 == [t |-> refs, rel |-> <<>>, n |-> 0, threw |-> FALSE]
      st1 == ApplyAddedLoop(st0, failAt, addedIds)
      st2 == ApplyRemovedLoop(st1, failAt, removedIds)
  IN  IF addedIds = <<>> /\ removedIds = <<>>
      THEN [refs |-> refs, released |-> <<>>, threw |-> FALSE]
      ELSE Transaction(refs, st2)

\* Most statements one call can run: one per added id, three per removed id.
MaxStmts == 3 * Cardinality(ImageIds)

(***************************************************************************)
(* The store and the handlers in flight.                                   *)
(***************************************************************************)
VARIABLES
  entries,     \* diary_entries with diary_tags: id -> [content, tags]
  archives,    \* archives: id -> [mainImage, images]
  avatar,      \* settings['user.avatar'], <<>> when unset
  imageRefs,   \* image_refs: image_id -> ref_count
  lastCall,    \* the last facade call: what it was and how it ended
  lastSync,    \* the last syncImageRefs call: its inputs and its result
  platform,    \* process.platform: "posix" or "win32"
  db,          \* database/index.ts `db`: "closed" (null) or the data it is open on
  handleOnLive,\* a SQLite handle (db, or one left behind) holds live diary.db open
  live,        \* userData: item -> whose data it is, or "absent"
  rollback,    \* .restore-rollback-*: item -> whose data it is, or "absent"
  rollbackDir, \* the rollback directory exists
  backup,      \* the picked bundle: item -> "backup" or "absent", and whether it opens
  transferInProgress, \* dataTransfer.ts `transferInProgress`
  xfer,        \* the locals of the export/import callback being run
  hist,        \* what has happened in the transfer so far
  reqs,        \* IPC invocations in flight: request -> its position and locals
  disk,        \* diary.db as files: the main file, the WAL, and the exported zip
  rows,        \* diary_entries as text, newest first: [id, title, plainContent, tags]
  people,      \* archives of type person: a sequence of [name, alias]
  personMentionDetailCache, \* diary.ts personMentionDetailCache: key -> entry
  lastQuery,   \* the last read-only call: its inputs and its result
  attachments, \* the attachments table and the attachment files on disk
  imageFiles,  \* the image files on disk, by image id
  jobs,        \* asynchronous work in flight: batches of file operations
  schema       \* PRAGMA user_version and the migrations applied to the store

storeVars == <<entries, archives, avatar, imageRefs, lastCall, lastSync>>
fileVars == <<platform, db, handleOnLive, live, rollback, rollbackDir, backup>>
xferVars == <<transferInProgress, xfer, hist>>
textVars == <<disk, rows, people, personMentionDetailCache, lastQuery>>
auxVars == <<attachments, imageFiles, jobs, schema>>
vars == <<storeVars, fileVars, xferVars, reqs, textVars, auxVars>>

NoId == "none"
NoCall == [op |-> "none", id |-> NoId, threw |-> "none", released |-> {}, prev |-> {}]
NoSync == [called |-> FALSE, before |-> EmptyRefs, old |-> <<>>, new |-> <<>>,
           failAt |-> 0, refs |-> EmptyRefs, released |-> <<>>, threw |-> FALSE]

SyncRecord(before, old, new, failAt, r) ==
  [called |-> TRUE, before |-> before, old |-> old, new |-> new, failAt |-> failAt,
   refs |-> r.refs, released |-> r.released, threw |-> r.threw]

EmptyTable == [x \in {} |-> <<>>]

StoreInit ==
  /\ entries = EmptyTable
  /\ archives = EmptyTable
  /\ avatar = <<>>
  /\ imageRefs = EmptyRefs
  /\ lastCall = NoCall
  /\ lastSync = NoSync

(***************************************************************************)
(* Diary entry store (database/diary.ts).                                  *)
(***************************************************************************)
\* getDiaryEntry: the row with its tags, or null.
getDiaryEntry(ents, id) == IF id \in DOMAIN ents THEN ents[id] ELSE <<>>

ContentOf(row) == IF row = <<>> THEN <<>> ELSE row.content

SetToSeq(S) == CHOOSE s \in [1..Cardinality(S) -> S] : SeqRange(s) = S

\* The statements of the save transaction after the existence check: the
\* UPDATE or INSERT of the row, then syncTags (DELETE of the associations,
\* one INSERT per tag).  st = [t: entries, n, threw].
RECURSIVE InsertTagsLoop(_, _, _, _)
InsertTagsLoop(st, failAt, id, tags) ==
  IF tags = <<>> THEN st
  ELSE InsertTagsLoop(
         Stmt(st, failAt, [st.t EXCEPT ![id].tags = @ \cup {Head(tags)}]),
         failAt, id, Tail(tags))

syncTags(st, failAt, id, tags) ==
  LET s1 == Stmt(st, failAt, [st.t EXCEPT ![id].tags = {}])
  IN  InsertTagsLoop(s1, failAt, id, SetToSeq(tags))

\* const save = db.transaction(..); save(): roll back on a throw.
SaveTransaction(before, st) ==
  IF st.threw THEN [entries |-> before, threw |-> TRUE]
  ELSE [entries |-> st.t, threw |-> FALSE]

\* saveDiaryEntry(entry): entry.id is NoId when absent; fresh is the id
\* randomUUID() returns.  Gives the new table, the saved id and whether the
\* call threw.
saveDiaryEntry(ents, entry, fresh, failAt) ==
  LET sanitizedContent == sanitizeDiaryHtml(entry.content)
      existing == entry.id # NoId /\ entry.id \in DOMAIN ents
      id == IF entry.id # NoId THEN entry.id ELSE fresh
      st0 == [t |-> ents, rel |-> <<>>, n |-> 0, threw |-> FALSE]
      row == IF existing
             THEN [ents[id] EXCEPT !.content = sanitizedContent]
             ELSE [content |-> sanitizedContent, tags |-> {}]
      s1 == Stmt(st0, failAt, [x \in DOMAIN ents \cup {id} |-> IF x = id THEN row ELSE ents[x]])
      s2 == syncTags(s1, failAt, id, entry.tags)
      r == SaveTransaction(ents, s2)
  IN  [entries |-> r.entries, id |-> id, threw |-> r.threw]

\* deleteDiaryEntry(id): the row and, by cascade, its tag associations.
deleteDiaryEntry(ents, id) ==
  [entries |-> [x \in DOMAIN ents \ {id} |-> ents[x]], deleted |-> id \in DOMAIN ents]

\* Most statements one saveDiaryEntry runs: the row, the DELETE, one per tag.
MaxSaveStmts == 2 + Cardinality(TagNames)

(***************************************************************************)
(* The IPC facade (main/index.ts), each handler up to its first await on   *)
(* file I/O.  fault = [at, k]: the k-th statement of the store write       *)
(* (at = "save") or of syncImageRefs (at = "sync") throws; at = "none" is  *)
(* a call in which nothing fails.                                          *)
(***************************************************************************)
NoFault == [at |-> "none", k |-> 0]
SaveFaults == [at : {"save"}, k : 1..MaxSaveStmts]
SyncFaults == [at : {"sync"}, k : 1..MaxStmts]
FailAt(fault, at) == IF fault.at = at THEN fault.k ELSE 0

CallRecord(op, id, threw, released, prev) ==
  [op |-> op, id |-> id, threw |-> threw, released |-> SeqRange(released),
   prev |-> SeqRange(prev)]

\* ipcMain.handle('diary:save')
DiarySaveHandler(ents, refs, sync, entry, fresh, fault) ==
  LET previous == IF entry.id # NoId THEN getDiaryEntry(ents, entry.id) ELSE <<>>
      sv == saveDiaryEntry(ents, entry, fresh, FailAt(fault, "save"))
      saved == getDiaryEntry(sv.entries, sv.id)
      oldIds == collectImageIdsFromText(ContentOf(previous))
      newIds == collectImageIdsFromText(saved.content)
      r == syncImageRefs(refs, oldIds, newIds, FailAt(fault, "sync"))
  IN  IF sv.threw
      THEN [entries |-> sv.entries, refs |-> refs, sync |-> sync,
            call |-> CallRecord("diary:save", sv.id, "save", <<>>, oldIds)]
      ELSE [entries |-> sv.entries, refs |-> r.refs,
            sync |-> SyncRecord(refs, oldIds, newIds, FailAt(fault, "sync"), r),
            call |-> CallRecord("diary:save", sv.id,
                                IF r.threw THEN "sync" ELSE "none", r.released, oldIds)]

\* ipcMain.handle('diary:delete')
DiaryDeleteHandler(ents, refs, sync, id, fault) ==
  LET previous == getDiaryEntry(ents, id)
      del == deleteDiaryEntry(ents, id)
      oldIds == collectImageIdsFromText(ContentOf(previous))
      r == syncImageRefs(refs, oldIds, <<>>, FailAt(fault, "sync"))
  IN  IF ~del.deleted
      THEN [entries |-> del.entries, refs |-> refs, sync |-> sync,
            call |-> CallRecord("diary:delete", id, "none", <<>>, oldIds)]
      ELSE [entries |-> del.entries, refs |-> r.refs,
            sync |-> SyncRecord(refs, oldIds, <<>>, FailAt(fault, "sync"), r),
            call |-> CallRecord("diary:delete", id,
                                IF r.threw THEN "sync" ELSE "none", r.released, oldIds)]

(***************************************************************************)
(* Facade calls that run one after another, each to completion.            *)
(***************************************************************************)
\* diary:save with entry ids from E, contents from C, a fault from F.
DiarySave(E, C, F) ==
  \E id \in E \cup {NoId}, c \in C, tg \in SUBSET TagNames, f \in F :
    \E fresh \in (IF id = NoId THEN E \ DOMAIN entries ELSE {id}) :
      LET h == DiarySaveHandler(entries, imageRefs, lastSync,
                                [id |-> id, content |-> c, tags |-> tg], fresh, f)
      IN  /\ entries' = h.entries
          /\ imageRefs' = h.refs
          /\ lastSync' = h.sync
          /\ lastCall' = h.call
          /\ UNCHANGED <<archives, avatar, fileVars, xferVars, reqs>>

\* diary:delete of an id from E, present or not.
DiaryDelete(E, F) ==
  \E id \in E, f \in F :
    LET h == DiaryDeleteHandler(entries, imageRefs, lastSync, id, f)
    IN  /\ entries' = h.entries
        /\ imageRefs' = h.refs
        /\ lastSync' = h.sync
        /\ lastCall' = h.call
        /\ UNCHANGED <<archives, avatar, fileVars, xferVars, reqs>>

(***************************************************************************)
(* Which stored fields hold an image id.                                   *)
(***************************************************************************)
IdsIn(text) == SeqRange(extractImageIds(text))

EntryFieldsWith(id) == {e \in DOMAIN entries : id \in IdsIn(entries[e].content)}

(***************************************************************************)
(* Archive store (database/archives.ts) and its handlers.  mainImage is a  *)
(* text of at most one reference (<<>> when unset); images is a list of    *)
(* texts of one reference each.                                            *)
(***************************************************************************)
MainImages == SeqsUpTo(StoredTokens, 1)
ImageLists == SeqsUpTo(StoredTokens, MaxLen)

ImageTexts(images) == [i \in DOMAIN images |-> <<images[i]>>]

\* collectArchiveImageIds: one Set over mainImage and every element of images.
collectArchiveImageIds(archive) ==
  IF archive = <<>> THEN <<>>
  ELSE collectImageIdsFromTexts(<<archive.mainImage>> \o ImageTexts(archive.images))

\* archives.get
archivesGet(arcs, id) == IF id \in DOMAIN arcs THEN arcs[id] ELSE <<>>

\* archives.save: an UPDATE that changes no row throws; without an id a row is
\* inserted under a fresh uuid.  failAt = 1: the one write statement throws.
archivesSave(arcs, archive, fresh, failAt) ==
  LET id == IF archive.id # NoId THEN archive.id ELSE fresh
      row == [mainImage |-> archive.mainImage, images |-> archive.images]
      missing == archive.id # NoId /\ archive.id \notin DOMAIN arcs
  IN  IF failAt = 1 \/ missing
      THEN [archives |-> arcs, id |-> id, threw |-> TRUE]
      ELSE [archives |-> [x \in DOMAIN arcs \cup {id} |-> IF x = id THEN row ELSE arcs[x]],
            id |-> id, threw |-> FALSE]

\* archives.delete
archivesDelete(arcs, id) == [x \in DOMAIN arcs \ {id} |-> arcs[x]]

\* ipcMain.handle('archives:save'), with no data-URL image to store first
ArchivesSaveHandler(arcs, refs, sync, archive, fresh, fault) ==
  LET previous == IF archive.id # NoId THEN archivesGet(arcs, archive.id) ELSE <<>>
      sv == archivesSave(arcs, archive, fresh, FailAt(fault, "save"))
      saved == archivesGet(sv.archives, sv.id)
      oldIds == collectArchiveImageIds(previous)
      newIds == collectArchiveImageIds(saved)
      r == syncImageRefs(refs, oldIds, newIds, FailAt(fault, "sync"))
  IN  IF sv.threw
      THEN [archives |-> sv.archives, refs |-> refs, sync |-> sync,
            call |-> CallRecord("archives:save", sv.id, "save", <<>>, oldIds)]
      ELSE [archives |-> sv.archives, refs |-> r.refs,
            sync |-> SyncRecord(refs, oldIds, newIds, FailAt(fault, "sync"), r),
            call |-> CallRecord("archives:save", sv.id,
                                IF r.threw THEN "sync" ELSE "none", r.released, oldIds)]

\* ipcMain.handle('archives:delete')
ArchivesDeleteHandler(arcs, refs, sync, id, fault) ==
  LET previous == archivesGet(arcs, id)
      oldIds == collectArchiveImageIds(previous)
      r == syncImageRefs(refs, oldIds, <<>>, FailAt(fault, "sync"))
  IN  [archives |-> archivesDelete(arcs, id), refs |-> r.refs,
       sync |-> IF oldIds = <<>> THEN sync
                ELSE SyncRecord(refs, oldIds, <<>>, FailAt(fault, "sync"), r),
       call |-> CallRecord("archives:delete", id,
                           IF r.threw THEN "sync" ELSE "none", r.released, oldIds)]

\* ipcMain.handle('settings:set') for key 'user.avatar': setSetting writes the
\* value and returns the ids the reference store released.
SettingsSetHandler(av, refs, sync, value, fault) ==
  LET oldIds == collectImageIdsFromText(av)
      newIds == collectImageIdsFromText(value)
      r == syncImageRefs(refs, oldIds, newIds, FailAt(fault, "sync"))
  IN  [avatar |-> value, refs |-> r.refs,
       sync |-> SyncRecord(refs, oldIds, newIds, FailAt(fault, "sync"), r),
       call |-> CallRecord("settings:set", NoId,
                           IF r.threw THEN "sync" ELSE "none", r.released, oldIds)]

\* archives:save with ids from A, mainImage from M, images from I, a fault from F.
ArchivesSave(A, M, I, F) ==
  \E id \in A \cup {NoId}, m \in M, im \in I, f \in F :
    \E fresh \in (IF id = NoId THEN A \ DOMAIN archives ELSE {id}) :
      LET h == ArchivesSaveHandler(archives, imageRefs, lastSync,
                                   [id |-> id, mainImage |-> m, images |-> im], fresh, f)
      IN  /\ archives' = h.archives
          /\ imageRefs' = h.refs
          /\ lastSync' = h.sync
          /\ lastCall' = h.call
          /\ UNCHANGED <<entries, avatar, fileVars, xferVars, reqs>>

\* archives:delete of an id from A, present or not.
ArchivesDelete(A, F) ==
  \E id \in A, f \in F :
    LET h == ArchivesDeleteHandler(archives, imageRefs, lastSync, id, f)
    IN  /\ archives' = h.archives
        /\ imageRefs' = h.refs
        /\ lastSync' = h.sync
        /\ lastCall' = h.call
        /\ UNCHANGED <<entries, avatar, fileVars, xferVars, reqs>>

\* settings:set of 'user.avatar' to a value from M.
SettingsSet(M, F) ==
  \E value \in M, f \in F :
    LET h == SettingsSetHandler(avatar, imageRefs, lastSync, value, f)
    IN  /\ avatar' = h.avatar
        /\ imageRefs' = h.refs
        /\ lastSync' = h.sync
        /\ lastCall' = h.call
        /\ UNCHANGED <<entries, archives, fileVars, xferVars, reqs>>

MainImageFieldsWith(id) == {a \in DOMAIN archives : id \in IdsIn(archives[a].mainImage)}
ImagesFieldsWith(id) == {a \in DOMAIN archives : id \in IdsIn(archives[a].images)}
AvatarFieldsWith(id) == IF id \in IdsIn(avatar) THEN {"user.avatar"} ELSE {}

\* The fields of every kind that hold the id.
FieldCount(id) ==
  Cardinality(EntryFieldsWith(id)) + Cardinality(MainImageFieldsWith(id))
    + Cardinality(ImagesFieldsWith(id)) + Cardinality(AvatarFieldsWith(id))

(***************************************************************************)
(* The parts of the state a specification does not use stay as they start. *)
(***************************************************************************)
Items == <<"diary.db", "diary.db-wal", "diary.db-shm", "images", "thumbnails", "attachments">>
ItemSet == SeqRange(Items)
NoItems == [x \in ItemSet |-> "absent"]
NoXfer == [kind |-> "none", pc |-> "idle", ctx |-> "main", i |-> 0, moved |-> <<>>,
           local |-> <<>>, closed |-> FALSE, result |-> "none"]
NoHist == [ioFaults |-> 0, pre |-> NoItems, started |-> FALSE, badBundle |-> FALSE,
           wasClosed |-> FALSE, reconnectFailed |-> FALSE]

FilesIdle ==
  /\ platform = "posix"
  /\ db = "pre"
  /\ handleOnLive = TRUE
  /\ live = NoItems
  /\ rollback = NoItems
  /\ rollbackDir = FALSE
  /\ backup = [items |-> NoItems, corrupt |-> "ok"]

XferIdle ==
  /\ transferInProgress = FALSE
  /\ xfer = NoXfer
  /\ hist = NoHist

ReqsIdle == reqs = <<>>

NoDisk == [main |-> "none", wal |-> <<>>, zip |-> <<>>]
NoQuery == [fn |-> "none"]
NoAttachments == [rows |-> {}, files |-> {}]
NoRun == [start |-> 0, ran |-> <<>>, ok |-> FALSE]
NoSchema == [version |-> 0, applied |-> <<>>, failed |-> 0, runs |-> 0,
             lastRun |-> NoRun]

AuxIdle ==
  /\ attachments = NoAttachments
  /\ imageFiles = {}
  /\ jobs = <<>>
  /\ schema = NoSchema

TextIdle ==
  /\ disk = NoDisk
  /\ rows = <<>>
  /\ people = <<>>
  /\ personMentionDetailCache = <<>>
  /\ lastQuery = NoQuery

(***************************************************************************)
(* Spec: diary:save and diary:delete on one entry, nothing failing.        *)
(***************************************************************************)
OneEntry == {"e1"}

Init == StoreInit /\ FilesIdle /\ XferIdle /\ ReqsIdle /\ TextIdle /\ AuxIdle

Next ==
  /\ \/ DiarySave(OneEntry, InputContents, {NoFault})
     \/ DiaryDelete(OneEntry, {NoFault})
  /\ UNCHANGED <<textVars, auxVars>>

Spec == Init /\ [][Next]_vars

\* C1: after every completed diary:save and diary:delete on one entry, for
\* every image id the stored ref_count equals the number of fields that
\* currently hold it, and the call returned as released exactly the ids the
\* entry held before and no field holds now.
C1_RefCountMatchesFields ==
  /\ \A id \in ImageIds : RefCount(imageRefs, id) = FieldCount(id)
  /\ \A id \in DOMAIN imageRefs : imageRefs[id] >= 1
  /\ lastCall.released = {id \in lastCall.prev : FieldCount(id) = 0}

\* C1 witness: the entry held A, was edited to hold only B, and A came back.
C1_Witness ==
  /\ lastCall.op = "diary:save"
  /\ lastCall.prev = {"A"}
  /\ lastCall.released = {"A"}
  /\ "A" \notin DOMAIN imageRefs
  /\ RefCount(imageRefs, "B") = 1
  /\ FieldCount("B") = 1

(***************************************************************************)
(* SpecOwners: every kind of owner (one entry, one archive, the avatar),   *)
(* calls one after another, nothing failing.                               *)
(***************************************************************************)
OneImageLists == SeqsUpTo(StoredTokens, 1)

NextOwners ==
  /\ \/ DiarySave(OneEntry, OneImageLists, {NoFault})
     \/ DiaryDelete(OneEntry, {NoFault})
     \/ ArchivesSave(ArchiveIds, MainImages, OneImageLists, {NoFault})
     \/ ArchivesDelete(ArchiveIds, {NoFault})
     \/ SettingsSet(MainImages, {NoFault})
  /\ UNCHANGED <<textVars, auxVars>>

SpecOwners == Init /\ [][NextOwners]_vars

\* C2: after any sequence of completed diary, archive and avatar calls, for
\* every image id the stored ref_count equals the number of owning fields
\* (each entry.content, each archive.mainImage, each archive.images, the
\* avatar setting) that hold the id, each field counted once.
C2_RefCountPerField ==
  \A id \in ImageIds : RefCount(imageRefs, id) = FieldCount(id)

(***************************************************************************)
(* SpecSync: syncImageRefs as a function of the table and its arguments:   *)
(* one call on any table, with any two id lists and any failing statement. *)
(***************************************************************************)
RefTables == UNION {[S -> 0..MaxCount] : S \in SUBSET ImageIds}
IdLists == SeqsUpTo(ImageIds, MaxLen)

InitSync ==
  /\ imageRefs \in RefTables
  /\ entries = EmptyTable
  /\ archives = EmptyTable
  /\ avatar = <<>>
  /\ lastCall = NoCall
  /\ lastSync = NoSync
  /\ FilesIdle /\ XferIdle /\ ReqsIdle /\ TextIdle /\ AuxIdle

SyncCall ==
  \E oldIds \in IdLists, newIds \in IdLists, failAt \in 0..MaxStmts :
    LET r == syncImageRefs(imageRefs, oldIds, newIds, failAt)
    IN  /\ ~lastSync.called
        /\ imageRefs' = r.refs
        /\ lastSync' = SyncRecord(imageRefs, oldIds, newIds, failAt, r)
        /\ UNCHANGED <<entries, archives, avatar, lastCall, fileVars, xferVars, reqs>>

NextSync == SyncCall /\ UNCHANGED <<textVars, auxVars>>

SpecSync == InitSync /\ [][NextSync]_vars

Max(a, b) == IF a >= b THEN a ELSE b

\* C3: syncImageRefs(old, new) adds one to (or creates at 1) the count of
\* every id of new - old, takes one (never below 0) from the count of every id
\* of old - new, returns exactly the ids of old - new whose count is then 0,
\* each once, and deletes their rows; every other row is as it was and never
\* returned.
C3_SyncDiff ==
  (lastSync.called /\ ~lastSync.threw) =>
    LET b == lastSync.before
        a == lastSync.refs
        O == SeqRange(lastSync.old)
        N == SeqRange(lastSync.new)
        rel == SeqRange(lastSync.released)
    IN  /\ imageRefs = a
        /\ Len(lastSync.released) = Cardinality(rel)
        /\ \A id \in ImageIds :
             /\ (id \in N \ O) =>
                  /\ id \in DOMAIN a
                  /\ a[id] = RefCount(b, id) + 1
                  /\ id \notin rel
             /\ (id \in O \ N) =>
                  /\ RefCount(a, id) = Max(RefCount(b, id) - 1, 0)
                  /\ (id \in rel) <=> (RefCount(a, id) = 0)
                  /\ (id \in rel) => (id \notin DOMAIN a)
             /\ (id \notin (N \ O) \cup (O \ N)) =>
                  /\ (id \in DOMAIN a) <=> (id \in DOMAIN b)
                  /\ RefCount(a, id) = RefCount(b, id)
                  /\ id \notin rel

\* C3 witness: one call that added an id, took another to 0 and released it,
\* and took one from a count that stayed above 0.
C3_Witness ==
  /\ lastSync.called /\ ~lastSync.threw
  /\ \E x \in ImageIds : x \in SeqRange(lastSync.new) \ SeqRange(lastSync.old)
  /\ lastSync.released # <<>>
  /\ \E y \in SeqRange(lastSync.old) \ SeqRange(lastSync.new) :
       RefCount(lastSync.before, y) = 1

\* C4: a syncImageRefs call in which a statement fails leaves image_refs
\* exactly as it was before the call and reports no id as released.
C4_SyncAllOrNothing ==
  (lastSync.called /\ lastSync.threw) =>
    /\ lastSync.refs = lastSync.before
    /\ imageRefs = lastSync.before
    /\ lastSync.released = <<>>

\* C4 witness: the failing statement came after an upsert and a decrement
\* had run.
C4_Witness ==
  /\ lastSync.called /\ lastSync.threw
  /\ lastSync.failAt >= 3
  /\ SeqRange(lastSync.new) \ SeqRange(lastSync.old) # {}
  /\ \E y \in SeqRange(lastSync.old) \ SeqRange(lastSync.new) :
       RefCount(lastSync.before, y) >= 1

(***************************************************************************)
(* SpecFaulty: the same calls, in which a statement of the store write or  *)
(* of syncImageRefs may fail.                                              *)
(***************************************************************************)
\* Texts that hold at most one image, by its original URL.
OrigTexts == SeqsUpTo([id : ImageIds, kind : {"orig"}], 1)

AllFaults == {NoFault} \cup SaveFaults \cup SyncFaults

\* The calls are followed up to the first one that fails.
NextFaulty ==
  /\ lastCall.threw = "none"
  /\ \/ DiarySave(OneEntry, OrigTexts, AllFaults)
     \/ DiaryDelete(OneEntry, AllFaults)
     \/ ArchivesSave(ArchiveIds, OrigTexts, OrigTexts, AllFaults)
     \/ ArchivesDelete(ArchiveIds, AllFaults)
  /\ UNCHANGED <<textVars, auxVars>>

SpecFaulty == Init /\ [][NextFaulty]_vars

\* C5: a diary:save or archives:save that fails part-way leaves the entry or
\* archive row, the tag associations and the image ref counts as they were
\* before the call.
C5_FailedSaveChangesNothing ==
  [][(lastCall'.op \in {"diary:save", "archives:save"} /\ lastCall'.threw # "none")
       => (entries' = entries /\ archives' = archives /\ imageRefs' = imageRefs)]_vars

(***************************************************************************)
(* Data transfer (utils/dataTransfer.ts).  One export or import callback   *)
(* runs at a time; every await on the file system or on a child process is *)
(* one step, and the synchronous code up to the next await belongs to the  *)
(* step.  A step whose operation can fail has a failing outcome as long as *)
(* hist.ioFaults < MaxFaults; some failures are forced by the state.       *)
(***************************************************************************)
\* withTransferLock: the request is turned away when a transfer is in progress.
withTransferLockNeverBusy(inProgress) == FALSE
withTransferLockBusy(inProgress) == inProgress

CanFault == hist.ioFaults < MaxFaults
Faulted(h) == [h EXCEPT !.ioFaults = @ + 1]

\* fs.rm of a live item fails on its own when the item is the database file
\* and a SQLite handle still holds it open on Windows.
RemoveBlocked(item) ==
  platform = "win32" /\ item = "diary.db" /\ handleOnLive

\* ensureImageDirs: the image and thumbnail directories exist afterwards.
ensureImageDirs(lv) ==
  [x \in ItemSet |->
     IF x \in {"images", "thumbnails"} /\ lv[x] = "absent" THEN "fresh" ELSE lv[x]]

\* initDatabase on the live diary.db: the data the store is opened on.
OpenedData(lv) == IF lv["diary.db"] = "absent" THEN "fresh" ELSE lv["diary.db"]

\* reopenDatabase: the outcomes of initDatabase followed by ensureImageDirs.
\*   opened   - both succeed;
\*   failOpen - `db = new Database(dbPath)` succeeded and a later step threw
\*              (a pragma or a migration on a file that is not a usable
\*              database, or ensureImageDirs): db stays assigned;
\*   failNew  - `new Database(dbPath)` itself threw: db is not assigned.
reopenDatabase(lv, curDb, curHandle, bk, canFault) ==
  LET data == OpenedData(lv)
      bad == (data = "backup" /\ bk.corrupt # "ok") \/ data = "partial"
      created == [lv EXCEPT !["diary.db"] = data]
      opened == [db |-> data, handle |-> TRUE, live |-> ensureImageDirs(created),
                 threw |-> FALSE, fault |-> FALSE]
      failOpen(f) == [db |-> data, handle |-> TRUE, live |-> created,
                      threw |-> TRUE, fault |-> f]
      failNew(f) == [db |-> curDb, handle |-> curHandle, live |-> lv,
                     threw |-> TRUE, fault |-> f]
  IN  IF bad
      THEN IF data = "backup" /\ bk.corrupt = "cantopen"
           THEN {failNew(FALSE)} ELSE {failOpen(FALSE)}
      ELSE {opened} \cup (IF canFault THEN {failOpen(TRUE), failNew(TRUE)} ELSE {})

\* Where control goes when a step of the import callback throws: the inner
\* catch and the main try body are inside the outer try; the try block of the
\* outer catch returns the composite error.
Finish(x, res) == [x EXCEPT !.pc = "finally", !.result = res]
ImportThrow(x) ==
  IF x.ctx = "outer"
  THEN Finish(x, "composite")
  ELSE [x EXCEPT !.pc = "cleanup", !.ctx = "outer", !.i = 1]

\* withTransferLock entry for import, the picker, and the extraction of the
\* bundle up to the check that it holds diary.db.
ImportStart ==
  /\ xfer.pc = "idle"
  /\ ~withTransferLockBusy(transferInProgress)
  /\ transferInProgress' = TRUE
  /\ xfer' = [NoXfer EXCEPT !.kind = "import", !.pc = "picker"]
  /\ hist' = [hist EXCEPT !.pre = live]
  /\ UNCHANGED <<storeVars, fileVars, reqs>>

ImportPicker ==
  /\ xfer.kind = "import" /\ xfer.pc = "picker"
  /\ \/ /\ xfer' = [xfer EXCEPT !.pc = "done", !.result = "canceled"]
        /\ transferInProgress' = FALSE
     \/ /\ xfer' = [xfer EXCEPT !.pc = "prepare"]
        /\ UNCHANGED transferInProgress
  /\ UNCHANGED <<storeVars, fileVars, hist, reqs>>

ImportPrepare ==
  /\ xfer.kind = "import" /\ xfer.pc = "prepare"
  /\ \/ /\ backup.items["diary.db"] # "absent"
        /\ xfer' = [xfer EXCEPT !.pc = "close"]
        /\ UNCHANGED <<hist, transferInProgress>>
     \/ /\ backup.items["diary.db"] = "absent"
        /\ xfer' = [xfer EXCEPT !.pc = "done", !.result = "failed"]
        /\ transferInProgress' = FALSE
        /\ UNCHANGED hist
     \/ /\ CanFault
        /\ xfer' = [xfer EXCEPT !.pc = "done", !.result = "failed"]
        /\ transferInProgress' = FALSE
        /\ hist' = Faulted(hist)
  /\ UNCHANGED <<storeVars, fileVars, reqs>>

\* closeDatabase(), then fs.mkdir(rollbackDir).
ImportCloseMkdir ==
  /\ xfer.kind = "import" /\ xfer.pc = "close"
  /\ db' = "closed"
  /\ handleOnLive' = FALSE
  /\ \/ /\ rollbackDir' = TRUE
        /\ xfer' = [xfer EXCEPT !.pc = "move", !.i = 1, !.local = <<>>]
        /\ UNCHANGED hist
     \/ /\ CanFault
        /\ UNCHANGED rollbackDir
        /\ xfer' = ImportThrow(xfer)
        /\ hist' = Faulted(hist)
  /\ UNCHANGED <<storeVars, platform, live, rollback, backup, transferInProgress, reqs>>

\* moveCurrentDataToRollback: one item per step; its list of moved items
\* reaches the callback's movedItems only when the loop has finished.
ImportMove ==
  /\ xfer.kind = "import" /\ xfer.pc = "move"
  /\ IF xfer.i > Len(Items)
     THEN /\ xfer' = [xfer EXCEPT !.pc = "copy", !.i = 1, !.moved = xfer.local]
          /\ UNCHANGED <<live, rollback, hist>>
     ELSE LET item == Items[xfer.i] IN
          IF live[item] = "absent"
          THEN /\ xfer' = [xfer EXCEPT !.i = @ + 1]
               /\ UNCHANGED <<live, rollback, hist>>
          ELSE \/ /\ rollback' = [rollback EXCEPT ![item] = live[item]]
                  /\ live' = [live EXCEPT ![item] = "absent"]
                  /\ xfer' = [xfer EXCEPT !.i = @ + 1, !.local = Append(@, item)]
                  /\ hist' = [hist EXCEPT !.started = TRUE]
               \/ /\ CanFault
                  /\ xfer' = ImportThrow(xfer)
                  /\ hist' = Faulted(hist)
                  /\ UNCHANGED <<live, rollback>>
  /\ UNCHANGED <<storeVars, platform, db, handleOnLive, rollbackDir, backup,
                 transferInProgress, reqs>>

\* The copy loop: copyPathIfExists of each bundle item into the live place.
ImportCopy ==
  /\ xfer.kind = "import" /\ xfer.pc = "copy"
  /\ IF xfer.i > Len(Items)
     THEN /\ xfer' = [xfer EXCEPT !.pc = "reopen", !.i = 1]
          /\ UNCHANGED <<live, hist>>
     ELSE LET item == Items[xfer.i] IN
          IF backup.items[item] = "absent"
          THEN /\ xfer' = [xfer EXCEPT !.i = @ + 1]
               /\ UNCHANGED <<live, hist>>
          ELSE \/ /\ live' = [live EXCEPT ![item] = "backup"]
                  /\ xfer' = [xfer EXCEPT !.i = @ + 1]
                  /\ UNCHANGED hist
               \/ /\ CanFault
                  /\ live' = [live EXCEPT ![item] = "partial"]
                  /\ xfer' = ImportThrow(xfer)
                  /\ hist' = Faulted(hist)
  /\ UNCHANGED <<storeVars, platform, db, handleOnLive, rollback, rollbackDir, backup,
                 transferInProgress, reqs>>

\* `await reopenDatabase()` of the import callback: on the imported data in
\* the main body, on the restored data in the inner and the outer catch.
ImportReopen ==
  /\ xfer.kind = "import" /\ xfer.pc = "reopen"
  /\ \E r \in reopenDatabase(live, db, handleOnLive, backup, CanFault) :
       /\ db' = r.db
       /\ handleOnLive' = r.handle
       /\ live' = r.live
       /\ hist' = [(IF r.fault THEN Faulted(hist) ELSE hist) EXCEPT
                     !.badBundle = @ \/ (xfer.ctx = "main" /\ r.threw /\ ~r.fault)]
       /\ xfer' = IF ~r.threw THEN [xfer EXCEPT !.pc = "rmRollback"]
                  ELSE IF xfer.ctx = "main"
                       THEN [xfer EXCEPT !.pc = "cleanup", !.ctx = "inner", !.i = 1]
                       ELSE Finish(xfer, "composite")
  /\ UNCHANGED <<storeVars, platform, rollback, rollbackDir, backup,
                 transferInProgress, reqs>>

\* cleanupCurrentData: removePathIfExists of each live item, one per step.
ImportCleanup ==
  /\ xfer.kind = "import" /\ xfer.pc = "cleanup"
  /\ IF xfer.i > Len(Items)
     THEN /\ xfer' = [xfer EXCEPT !.pc = "restore", !.i = 1]
          /\ UNCHANGED <<live, handleOnLive, hist>>
     ELSE LET item == Items[xfer.i] IN
          IF live[item] = "absent"
          THEN /\ xfer' = [xfer EXCEPT !.i = @ + 1]
               /\ UNCHANGED <<live, handleOnLive, hist>>
          ELSE IF RemoveBlocked(item)
          THEN /\ xfer' = ImportThrow(xfer)
               /\ UNCHANGED <<live, handleOnLive, hist>>
          ELSE \/ /\ live' = [live EXCEPT ![item] = "absent"]
                  /\ handleOnLive' = (handleOnLive /\ item # "diary.db")
                  /\ xfer' = [xfer EXCEPT !.i = @ + 1]
                  /\ UNCHANGED hist
               \/ /\ CanFault
                  /\ xfer' = ImportThrow(xfer)
                  /\ hist' = Faulted(hist)
                  /\ UNCHANGED <<live, handleOnLive>>
  /\ UNCHANGED <<storeVars, platform, db, rollback, rollbackDir, backup,
                 transferInProgress, reqs>>

\* restoreRollbackData: each item of the callback's movedItems that is in the
\* rollback directory is renamed back, one per step.
ImportRestore ==
  /\ xfer.kind = "import" /\ xfer.pc = "restore"
  /\ IF xfer.i > Len(xfer.moved)
     THEN /\ xfer' = [xfer EXCEPT !.pc = "reopen", !.i = 1]
          /\ UNCHANGED <<live, rollback, hist>>
     ELSE LET item == xfer.moved[xfer.i] IN
          IF rollback[item] = "absent"
          THEN /\ xfer' = [xfer EXCEPT !.i = @ + 1]
               /\ UNCHANGED <<live, rollback, hist>>
          ELSE \/ /\ live' = [live EXCEPT ![item] = rollback[item]]
                  /\ rollback' = [rollback EXCEPT ![item] = "absent"]
                  /\ xfer' = [xfer EXCEPT !.i = @ + 1]
                  /\ UNCHANGED hist
               \/ /\ CanFault
                  /\ xfer' = ImportThrow(xfer)
                  /\ hist' = Faulted(hist)
                  /\ UNCHANGED <<live, rollback>>
  /\ UNCHANGED <<storeVars, platform, db, handleOnLive, rollbackDir, backup,
                 transferInProgress, reqs>>

\* removePathIfExists(rollbackDir) and the return that follows it: success in
\* the main body, the single-cause error in either catch.  A failure in the
\* outer catch leaves the callback as a rejection.
ImportRemoveRollback ==
  /\ xfer.kind = "import" /\ xfer.pc = "rmRollback"
  /\ \/ /\ rollbackDir' = FALSE
        /\ rollback' = NoItems
        /\ xfer' = Finish(xfer, IF xfer.ctx = "main" THEN "success" ELSE "failed")
        /\ UNCHANGED hist
     \/ /\ CanFault /\ rollbackDir
        /\ UNCHANGED <<rollbackDir, rollback>>
        /\ xfer' = IF xfer.ctx = "outer" THEN Finish(xfer, "rejected")
                   ELSE ImportThrow(xfer)
        /\ hist' = Faulted(hist)
  /\ UNCHANGED <<storeVars, platform, db, handleOnLive, live, backup,
                 transferInProgress, reqs>>

\* finally: removePathIfExists(tempImportRoot); then withTransferLock's
\* finally releases the lock.  A failing removal replaces the result by a
\* rejection.
TransferFinally ==
  /\ xfer.pc = "finally"
  /\ transferInProgress' = FALSE
  /\ \/ /\ xfer' = [xfer EXCEPT !.pc = "done"]
        /\ UNCHANGED hist
     \/ /\ CanFault
        /\ xfer' = [xfer EXCEPT !.pc = "done", !.result = "rejected"]
        /\ hist' = Faulted(hist)
  /\ UNCHANGED <<storeVars, fileVars, reqs>>

(***************************************************************************)
(* SpecImport: one import, from a store open on the user's data, of a      *)
(* bundle that may or may not open as a database.                          *)
(***************************************************************************)
Presence(v) == {"absent", v}
LiveLayouts ==
  {[x \in ItemSet |->
      IF x \in {"diary.db-wal", "diary.db-shm"} THEN side
      ELSE IF x = "attachments" THEN att ELSE "pre"] :
     side \in Presence("pre"), att \in Presence("pre")}
BackupLayouts ==
  {[x \in ItemSet |->
      IF x = "diary.db" THEN d
      ELSE IF x \in {"diary.db-wal", "diary.db-shm"} THEN "absent"
      ELSE IF x = "attachments" THEN att ELSE "backup"] :
     d \in Presence("backup"), att \in Presence("backup")}

InitImport ==
  /\ StoreInit /\ XferIdle /\ ReqsIdle /\ TextIdle /\ AuxIdle
  /\ platform \in {"posix", "win32"}
  /\ db = "pre"
  /\ handleOnLive = TRUE
  /\ live \in LiveLayouts
  /\ rollback = NoItems
  /\ rollbackDir = FALSE
  /\ backup \in [items : BackupLayouts, corrupt : {"ok", "notadb", "cantopen"}]

NextImport ==
  /\ \/ ImportStart
     \/ ImportPicker
     \/ ImportPrepare
     \/ ImportCloseMkdir
     \/ ImportMove
     \/ ImportCopy
     \/ ImportReopen
     \/ ImportCleanup
     \/ ImportRestore
     \/ ImportRemoveRollback
     \/ TransferFinally
  /\ UNCHANGED <<textVars, auxVars>>

SpecImport == InitImport /\ [][NextImport]_vars

ImportReturned == xfer.kind = "import" /\ xfer.pc = "done"

\* Pre-import items that are not in the live location.
MissingItems == {x \in ItemSet : hist.pre[x] # "absent" /\ live[x] # "pre"}

\* C6: an import of a bundle whose database cannot be opened, with no other
\* failure, ends with exactly the pre-import items back in the live location
\* and the store open on the pre-import data.
C6_CorruptImportRestored ==
  (ImportReturned /\ hist.badBundle /\ hist.ioFaults = 0)
    => (live = hist.pre /\ db = "pre")

\* C7: an import that fails after it began moving live data aside returns
\* either with the pre-import data back in the live location, or with the
\* error naming both failures and the rollback area kept; it never returns
\* an ordinary failure, or discards the rollback area, while a pre-import
\* item is missing from the live location.
C7_FailureRestoresOrComposite ==
  (ImportReturned /\ hist.started /\ xfer.result # "success")
    => \/ MissingItems = {}
       \/ (xfer.result = "composite" /\ rollbackDir)

(***************************************************************************)
(* exportAppData.                                                          *)
(***************************************************************************)
\* The catch block reopens the store only when databaseClosed is set.
ExportCatchNeverReopens(closed) == FALSE
ExportCatchReopens(closed) == closed

ExportStart ==
  /\ xfer.pc = "idle"
  /\ ~withTransferLockBusy(transferInProgress)
  /\ transferInProgress' = TRUE
  /\ xfer' = [NoXfer EXCEPT !.kind = "export", !.pc = "picker"]
  /\ hist' = [hist EXCEPT !.pre = live]
  /\ UNCHANGED <<storeVars, fileVars, reqs>>

ExportPicker ==
  /\ xfer.kind = "export" /\ xfer.pc = "picker"
  /\ \/ /\ xfer' = [xfer EXCEPT !.pc = "done", !.result = "canceled"]
        /\ transferInProgress' = FALSE
     \/ /\ xfer' = [xfer EXCEPT !.pc = "mkdtemp"]
        /\ UNCHANGED transferInProgress
  /\ UNCHANGED <<storeVars, fileVars, hist, reqs>>

\* fs.mkdtemp, then checkpointDatabase, closeDatabase and databaseClosed =
\* true.  mkdtemp is outside the try: its failure rejects the callback.
ExportClose ==
  /\ xfer.kind = "export" /\ xfer.pc = "mkdtemp"
  /\ \/ /\ db' = "closed"
        /\ handleOnLive' = FALSE
        /\ xfer' = [xfer EXCEPT !.pc = "write", !.closed = TRUE]
        /\ hist' = [hist EXCEPT !.wasClosed = TRUE]
        /\ UNCHANGED transferInProgress
     \/ /\ CanFault
        /\ xfer' = [xfer EXCEPT !.pc = "done", !.result = "rejected"]
        /\ transferInProgress' = FALSE
        /\ hist' = Faulted(hist)
        /\ UNCHANGED <<db, handleOnLive>>
     \/ /\ CanFault
        /\ xfer' = [xfer EXCEPT !.pc = "catch"]
        /\ hist' = Faulted(hist)
        /\ UNCHANGED <<db, handleOnLive, transferInProgress>>
  /\ UNCHANGED <<storeVars, platform, live, rollback, rollbackDir, backup, reqs>>

\* collectExistingRelativePaths and fs.writeFile of the metadata; then
\* createZipArchiveFromPaths; then appendMetadataToZip.
ExportStep(from, to) ==
  /\ xfer.kind = "export" /\ xfer.pc = from
  /\ \/ /\ xfer' = [xfer EXCEPT !.pc = to]
        /\ UNCHANGED hist
     \/ /\ CanFault
        /\ xfer' = [xfer EXCEPT !.pc = "catch"]
        /\ hist' = Faulted(hist)
  /\ UNCHANGED <<storeVars, fileVars, transferInProgress, reqs>>

ExportWriteMetadata == ExportStep("write", "zip")
ExportCreateZip == ExportStep("zip", "append")
ExportAppendMetadata == ExportStep("append", "reopen")

\* `await reopenDatabase(); databaseClosed = false; return success`.
ExportReopen ==
  /\ xfer.kind = "export" /\ xfer.pc = "reopen"
  /\ \E r \in reopenDatabase(live, db, handleOnLive, backup, CanFault) :
       /\ db' = r.db
       /\ handleOnLive' = r.handle
       /\ live' = r.live
       /\ hist' = IF r.fault THEN Faulted(hist) ELSE hist
       /\ xfer' = IF r.threw THEN [xfer EXCEPT !.pc = "catch"]
                  ELSE Finish([xfer EXCEPT !.closed = FALSE], "success")
  /\ UNCHANGED <<storeVars, platform, rollback, rollbackDir, backup,
                 transferInProgress, reqs>>

\* catch: reopen when databaseClosed; the composite error when that reopen
\* throws, the original error otherwise.
ExportCatch ==
  /\ xfer.kind = "export" /\ xfer.pc = "catch"
  /\ IF ExportCatchReopens(xfer.closed)
     THEN \E r \in reopenDatabase(live, db, handleOnLive, backup, CanFault) :
            /\ db' = r.db
            /\ handleOnLive' = r.handle
            /\ live' = r.live
            /\ hist' = [(IF r.fault THEN Faulted(hist) ELSE hist) EXCEPT
                          !.reconnectFailed = r.threw]
            /\ xfer' = Finish(xfer, IF r.threw THEN "composite" ELSE "failed")
     ELSE /\ xfer' = Finish(xfer, "failed")
          /\ UNCHANGED <<db, handleOnLive, live, hist>>
  /\ UNCHANGED <<storeVars, platform, rollback, rollbackDir, backup,
                 transferInProgress, reqs>>

(***************************************************************************)
(* SpecExport: one export from a store open on the user's data.            *)
(***************************************************************************)
InitExport ==
  /\ StoreInit /\ XferIdle /\ ReqsIdle /\ TextIdle /\ AuxIdle
  /\ platform \in {"posix", "win32"}
  /\ db = "pre"
  /\ handleOnLive = TRUE
  /\ live \in LiveLayouts
  /\ rollback = NoItems
  /\ rollbackDir = FALSE
  /\ backup = [items |-> NoItems, corrupt |-> "ok"]

NextExport ==
  /\ \/ ExportStart
     \/ ExportPicker
     \/ ExportClose
     \/ ExportWriteMetadata
     \/ ExportCreateZip
     \/ ExportAppendMetadata
     \/ ExportReopen
     \/ ExportCatch
     \/ TransferFinally
  /\ UNCHANGED <<textVars, auxVars>>

SpecExport == InitExport /\ [][NextExport]_vars

ExportReturned == xfer.kind = "export" /\ xfer.pc = "done"

Requests == 1 .. NumRequests
Transfers == {"data:export", "data:import"}
IdleReq == [op |-> "none", pc |-> "idle", result |-> "none", sawPicker |-> FALSE,
            closedStore |-> FALSE]
InFlight(r) == reqs[r].pc \notin {"idle", "returned"}
InCallback(r) == reqs[r].op \in Transfers /\ InFlight(r)
Returned(q, res) == [q EXCEPT !.pc = "returned", !.result = res]

\* data:export / data:import arrive: withTransferLock, and in the same turn
\* the callback up to the await of the picker.
InvokeTransfer(r) ==
  /\ reqs[r].pc = "idle"
  /\ \E op \in Transfers :
       LET q == [IdleReq EXCEPT !.op = op] IN
       IF withTransferLockBusy(transferInProgress)
       THEN /\ reqs' = [reqs EXCEPT ![r] = Returned(q, "busy")]
            /\ UNCHANGED transferInProgress
       ELSE /\ reqs' = [reqs EXCEPT ![r] = [q EXCEPT !.pc = "picker", !.sawPicker = TRUE]]
            /\ transferInProgress' = TRUE
  /\ UNCHANGED <<storeVars, fileVars, xfer, hist>>

\* The picker resolves: canceled, or a path was chosen and the callback goes
\* on to its temporary directory (and, for import, the extraction).
PickerResolves(r) ==
  /\ InCallback(r) /\ reqs[r].pc = "picker"
  /\ \/ /\ reqs' = [reqs EXCEPT ![r] = Returned(@, "canceled")]
        /\ transferInProgress' = FALSE
     \/ /\ reqs' = [reqs EXCEPT ![r].pc = "prepare"]
        /\ UNCHANGED transferInProgress
  /\ UNCHANGED <<storeVars, fileVars, xfer, hist>>

\* The preparation ends: closeDatabase() and on to the file work, or an
\* early failure returned with the store untouched.
TransferCloses(r) ==
  /\ InCallback(r) /\ reqs[r].pc = "prepare"
  /\ \/ /\ db' = "closed"
        /\ handleOnLive' = FALSE
        /\ reqs' = [reqs EXCEPT ![r].pc = "closed", ![r].closedStore = TRUE]
        /\ UNCHANGED transferInProgress
     \/ /\ reqs' = [reqs EXCEPT ![r] = Returned(@, "failed")]
        /\ transferInProgress' = FALSE
        /\ UNCHANGED <<db, handleOnLive>>
  /\ UNCHANGED <<storeVars, platform, live, rollback, rollbackDir, backup, xfer, hist>>

\* The file work ends and the callback returns through its finally blocks:
\* the store reopened (after an import that succeeded, on the bundle's data,
\* taken here to be an empty store), or left closed with the composite error.
TransferReturns(r) ==
  /\ InCallback(r) /\ reqs[r].pc = "closed"
  /\ transferInProgress' = FALSE
  /\ \/ /\ db' = "pre" /\ handleOnLive' = TRUE
        /\ \E res \in {"success", "failed", "rejected"} :
             /\ reqs' = [reqs EXCEPT ![r] = Returned(@, res)]
             /\ IF res = "success" /\ reqs[r].op = "data:import"
                THEN /\ entries' = EmptyTable /\ archives' = EmptyTable
                     /\ avatar' = <<>> /\ imageRefs' = EmptyRefs
                     /\ UNCHANGED <<lastCall, lastSync>>
                ELSE UNCHANGED storeVars
     \/ /\ UNCHANGED <<db, handleOnLive, storeVars>>
        /\ reqs' = [reqs EXCEPT ![r] = Returned(@, "composite")]
  /\ UNCHANGED <<platform, live, rollback, rollbackDir, backup, xfer, hist>>

\* diary:save arrives: getDiaryEntry, saveDiaryEntry and syncImageRefs run in
\* the same turn (getDatabase throws while the store is closed); the handler
\* then awaits the deletion of the released image files, if any.
InvokeDiarySave(r, E, C) ==
  /\ reqs[r].pc = "idle"
  /\ LET q == [IdleReq EXCEPT !.op = "diary:save"] IN
     IF db = "closed"
     THEN /\ reqs' = [reqs EXCEPT ![r] = Returned(q, "notInitialized")]
          /\ UNCHANGED storeVars
     ELSE \E id \in E \cup {NoId}, c \in C :
            \E fresh \in (IF id = NoId THEN E \ DOMAIN entries ELSE {id}) :
              LET h == DiarySaveHandler(entries, imageRefs, lastSync,
                                        [id |-> id, content |-> c, tags |-> {}],
                                        fresh, NoFault)
              IN  /\ entries' = h.entries
                  /\ imageRefs' = h.refs
                  /\ lastSync' = h.sync
                  /\ lastCall' = h.call
                  /\ UNCHANGED <<archives, avatar>>
                  /\ reqs' = [reqs EXCEPT ![r] =
                                IF h.call.released = {} THEN Returned(q, "ok")
                                ELSE [q EXCEPT !.pc = "cleanup"]]
  /\ UNCHANGED <<fileVars, xferVars>>

\* cleanupReleasedImages has settled: the handler returns the saved entry.
CleanupSettles(r) ==
  /\ reqs[r].op = "diary:save" /\ reqs[r].pc = "cleanup"
  /\ reqs' = [reqs EXCEPT ![r] = Returned(@, "ok")]
  /\ UNCHANGED <<storeVars, fileVars, xferVars>>

\* The renderer has its answer; the request slot can carry a new invocation.
Answered(r) ==
  /\ reqs[r].pc = "returned"
  /\ reqs' = [reqs EXCEPT ![r] = IdleReq]
  /\ UNCHANGED <<storeVars, fileVars, xferVars>>

InitIpc ==
  /\ StoreInit /\ FilesIdle /\ XferIdle /\ TextIdle /\ AuxIdle
  /\ reqs = [r \in Requests |-> IdleReq]

NextIpc ==
  /\ \E r \in Requests :
       \/ InvokeTransfer(r)
       \/ PickerResolves(r)
       \/ TransferCloses(r)
       \/ TransferReturns(r)
       \/ InvokeDiarySave(r, OneEntry, OrigTexts)
       \/ CleanupSettles(r)
       \/ Answered(r)
  /\ UNCHANGED <<textVars, auxVars>>

SpecIpc == InitIpc /\ [][NextIpc]_vars

(***************************************************************************)
(* SpecLock: export and import requests only.                              *)
(***************************************************************************)
NextLock ==
  /\ \E r \in Requests :
       \/ InvokeTransfer(r)
       \/ PickerResolves(r)
       \/ TransferCloses(r)
       \/ TransferReturns(r)
       \/ Answered(r)
  /\ UNCHANGED <<textVars, auxVars>>

SpecLock == InitIpc /\ [][NextLock]_vars

\* At most one callback runs, the lock is held exactly while one runs, and a
\* request turned away as busy has shown no picker and closed no store.
LockInvariant ==
  /\ Cardinality({r \in Requests : InCallback(r)}) <= 1
  /\ transferInProgress <=> (\E r \in Requests : InCallback(r))
  /\ \A r \in Requests :
       reqs[r].result = "busy" => (~reqs[r].sawPicker /\ ~reqs[r].closedStore)

\* A request that arrives is answered in its arriving step: turned away as
\* busy with the store and the files untouched when a transfer is in
\* progress, accepted into its callback otherwise.
LockArrival ==
  \A r \in Requests :
    (reqs[r].pc = "idle" /\ reqs'[r].pc # "idle")
      => IF transferInProgress
         THEN /\ reqs'[r].pc = "returned" /\ reqs'[r].result = "busy"
              /\ UNCHANGED <<storeVars, fileVars, transferInProgress>>
         ELSE reqs'[r].pc = "picker" /\ transferInProgress'

\* C9: at most one export/import callback executes at any time; a request
\* that arrives while a transfer is in progress returns the busy failure at
\* once, unqueued, with no picker shown, the store not closed and no file
\* touched; after any transfer has returned the next request is accepted.
C9_TransferLock == []LockInvariant /\ [][LockArrival]_vars

\* A request was turned away as busy while the other request's callback had
\* the store closed.
C9_Witness ==
  \E r, o \in Requests :
    /\ reqs[r].pc = "returned" /\ reqs[r].result = "busy"
    /\ InCallback(o) /\ reqs[o].pc = "closed" /\ db = "closed"

\* C10: each facade call runs to completion before the next one starts: no
\* handler begins between the first and the last step of another handler,
\* and none finds the store closed by an export or import in progress.
C10_RunToCompletion ==
  /\ Cardinality({r \in Requests : InFlight(r)}) <= 1
  /\ \A r \in Requests : reqs[r].result # "notInitialized"

(***************************************************************************)
(* Export followed by import in a fresh environment.  The database is the  *)
(* main file diary.db plus the write-ahead log: statements land in the WAL *)
(* and a checkpoint moves them into the main file.  The exported zip holds *)
(* diary.db alone (EXPORT_DATA_ITEMS).                                     *)
(***************************************************************************)
CurrentStore ==
  [entries |-> entries, archives |-> archives, avatar |-> avatar, imageRefs |-> imageRefs]
EmptyStore ==
  [entries |-> EmptyTable, archives |-> EmptyTable, avatar |-> <<>>, imageRefs |-> EmptyRefs]

\* What a connection opened on the files reads.
OpenedStore(d) == IF d.wal # <<>> THEN d.wal[1] ELSE d.main

\* checkpointDatabase('TRUNCATE'): the WAL's frames go to the main file.
checkpointDatabase(d) == [d EXCEPT !.main = OpenedStore(d), !.wal = <<>>]

\* closeDatabase: closing the only connection checkpoints and drops the WAL.
closeDatabase(d) == checkpointDatabase(d)

\* createZipArchiveFromPaths over EXPORT_DATA_ITEMS: diary.db as it is on disk.
createZipSkipsDatabase(d) == [d EXCEPT !.zip = <<EmptyStore>>]
createZipArchiveFromPaths(d) == [d EXCEPT !.zip = <<d.main>>]

\* The import's move of diary.db, diary.db-wal and diary.db-shm to the
\* rollback directory and its copy of the bundle's items into their place.
copyBundle(d) == [d EXCEPT !.main = d.zip[1], !.wal = <<>>]

RoundTripDisk ==
  [main |-> EmptyStore, wal |-> <<>>, zip |-> <<>>, exported |-> EmptyStore,
   env |-> "source"]

\* A facade write of the source environment: its statements are in the WAL.
SourceWrite ==
  /\ disk.env = "source" /\ disk.zip = <<>>
  /\ \/ DiarySave(OneEntry, OrigTexts, {NoFault})
     \/ ArchivesSave(ArchiveIds, OrigTexts, {<<>>}, {NoFault})
  /\ disk' = [disk EXCEPT !.wal = <<CurrentStore'>>]
  /\ UNCHANGED <<rows, people, personMentionDetailCache, lastQuery>>

\* SQLite's automatic checkpoint.
AutoCheckpoint ==
  /\ disk.env = "source" /\ disk.wal # <<>>
  /\ disk' = checkpointDatabase(disk)
  /\ UNCHANGED <<storeVars, fileVars, xferVars, reqs, rows, people,
                 personMentionDetailCache, lastQuery>>

\* exportAppData with no step failing: checkpoint, close, zip, reopen.
ExportAppData ==
  /\ disk.env = "source" /\ disk.zip = <<>>
  /\ disk' = [createZipArchiveFromPaths(closeDatabase(checkpointDatabase(disk)))
                EXCEPT !.exported = CurrentStore]
  /\ lastCall' = CallRecord("data:export", NoId, "none", <<>>, <<>>)
  /\ UNCHANGED <<entries, archives, avatar, imageRefs, lastSync, fileVars, xferVars,
                 reqs, rows, people, personMentionDetailCache, lastQuery>>

\* The bundle is taken to an installation that has just been started.
FreshEnvironment ==
  /\ disk.env = "source" /\ disk.zip # <<>>
  /\ disk' = [disk EXCEPT !.env = "fresh", !.main = EmptyStore, !.wal = <<>>]
  /\ entries' = EmptyTable /\ archives' = EmptyTable
  /\ avatar' = <<>> /\ imageRefs' = EmptyRefs
  /\ lastCall' = NoCall /\ lastSync' = NoSync
  /\ UNCHANGED <<fileVars, xferVars, reqs, rows, people, personMentionDetailCache,
                 lastQuery>>

\* importAppData with no step failing: close, move aside, copy, reopen.
ImportAppData ==
  /\ disk.env = "fresh"
  /\ LET d == copyBundle(closeDatabase(disk)) IN
     /\ disk' = [d EXCEPT !.env = "imported"]
     /\ entries' = OpenedStore(d).entries
     /\ archives' = OpenedStore(d).archives
     /\ avatar' = OpenedStore(d).avatar
     /\ imageRefs' = OpenedStore(d).imageRefs
  /\ lastCall' = CallRecord("data:import", NoId, "none", <<>>, <<>>)
  /\ UNCHANGED <<lastSync, fileVars, xferVars, reqs, rows, people,
                 personMentionDetailCache, lastQuery>>

InitRoundTrip ==
  /\ StoreInit /\ FilesIdle /\ XferIdle /\ ReqsIdle
  /\ disk = RoundTripDisk
  /\ rows = <<>> /\ people = <<>>
  /\ personMentionDetailCache = <<>>
  /\ lastQuery = NoQuery
  /\ AuxIdle

NextRoundTrip ==
  /\ \/ SourceWrite
     \/ AutoCheckpoint
     \/ ExportAppData
     \/ FreshEnvironment
     \/ ImportAppData
  /\ UNCHANGED auxVars

SpecRoundTrip == InitRoundTrip /\ [][NextRoundTrip]_vars

\* C11: exporting and then importing the produced bundle into a fresh
\* environment yields the same entries (ids, content, tags) and the same
\* reference count for every image id as the store that was exported.
C11_RoundTrip ==
  disk.env = "imported"
    => /\ entries = disk.exported.entries
       /\ \A id \in ImageIds : RefCount(imageRefs, id) = RefCount(disk.exported.imageRefs, id)

\* An imported store that holds an entry and a counted image, exported while
\* its last write was still in the WAL.
C11_Witness ==
  /\ disk.env = "imported"
  /\ entries # EmptyTable
  /\ \E id \in ImageIds : RefCount(imageRefs, id) >= 1

(***************************************************************************)
(* Person mentions (database/diary.ts).  A text is a sequence of UTF-16    *)
(* code units, each written as a one-character string; "HI" and "LO" are   *)
(* the two halves of one letter outside the basic plane (such as U+20BB7). *)
(* An archive's alias column is kept as the list splitAliases makes of it. *)
(***************************************************************************)
UpperCase == {"A", "X", "Y", "B", "E", "É"}
LowerCase == {"a", "x", "y", "n", "g", "i", "t", "c", "b", "o", "v", "e", "é"}
Surrogates == {"HI", "LO"}
Blank == " "

toLowerChar(c) ==
  CASE c = "A" -> "a" [] c = "X" -> "x" [] c = "Y" -> "y"
    [] c = "B" -> "b" [] c = "E" -> "e" [] c = "É" -> "é" [] OTHER -> c

\* String.prototype.toLocaleLowerCase.
toLocaleLowerCase(t) == [i \in DOMAIN t |-> toLowerChar(t[i])]

\* [...token].length: the token's length in code points.
charLength(t) == Len(t) - Cardinality({i \in DOMAIN t : t[i] = "LO"})

\* isWordLikeChar on one code unit (or on undefined, written "none"): a lone
\* surrogate is neither a letter nor a number.
isWordLikeCharNever(char) == FALSE
isWordLikeChar(char) == char \in UpperCase \cup LowerCase

\* tokenMetaForPerson of one archive: key -> [token, isAlias], in insertion
\* order; a later name replaces an alias under the same key.
RECURSIVE tokenMetaForPerson(_, _)
tokenMetaForPerson(rawTokens, acc) ==
  IF rawTokens = <<>> THEN acc
  ELSE LET r == Head(rawTokens)
           key == toLocaleLowerCase(r.token)
           hit == {i \in DOMAIN acc : acc[i].key = key}
           item == [key |-> key, token |-> r.token, isAlias |-> r.isAlias]
       IN  IF hit = {}
           THEN tokenMetaForPerson(Tail(rawTokens), Append(acc, item))
           ELSE LET i == CHOOSE j \in hit : TRUE IN
                IF acc[i].isAlias /\ ~r.isAlias
                THEN tokenMetaForPerson(Tail(rawTokens), [acc EXCEPT ![i] = item])
                ELSE tokenMetaForPerson(Tail(rawTokens), acc)

RawTokens(person) ==
  <<[token |-> person.name, isAlias |-> FALSE]>>
    \o [i \in DOMAIN person.alias |-> [token |-> person.alias[i], isAlias |-> TRUE]]

PersonMeta(persons, i) == tokenMetaForPerson(RawTokens(persons[i]), <<>>)

\* buildPersonMentionMatcher.  The alternation of mentionRegex is built from
\* keys by orderedTokens, below.
buildPersonMentionMatcher(persons) ==
  LET meta == [i \in DOMAIN persons |-> PersonMeta(persons, i)]
      keysOf(i) == {meta[i][j].key : j \in DOMAIN meta[i]}
      keys == UNION {keysOf(i) : i \in DOMAIN persons}
      owners == [k \in keys |-> {i \in DOMAIN persons : k \in keysOf(i)}]
      first(k) == CHOOSE i \in owners[k] : \A o \in owners[k] : i <= o
      itemOf(i, k) == meta[i][CHOOSE j \in DOMAIN meta[i] : meta[i][j].key = k]
  IN  [personNames |-> [i \in DOMAIN persons |-> persons[i].name],
       personTokens |-> [i \in DOMAIN persons |->
                           [j \in DOMAIN meta[i] |-> meta[i][j].token]],
       tokenOwners |-> owners,
       tokenMetaByKey |-> [k \in keys |->
                             [personIndex |-> first(k),
                              isAlias |-> itemOf(first(k), k).isAlias,
                              charLength |-> charLength(itemOf(first(k), k).token)]],
       keys |-> keys]

\* The key matches the text case-insensitively at position p.
KeyAt(text, p, key) ==
  /\ p + Len(key) - 1 <= Len(text)
  /\ \A j \in DOMAIN key : toLowerChar(text[p + j - 1]) = key[j]

\* The alternatives sorted shortest first.
RECURSIVE orderedTokensShortestFirst(_)
orderedTokensShortestFirst(keys) ==
  IF keys = {} THEN <<>>
  ELSE LET k == CHOOSE x \in keys : \A y \in keys : Len(x) <= Len(y)
       IN  <<k>> \o orderedTokensShortestFirst(keys \ {k})

\* orderedTokens: the keys sorted by length, longest first.  Keys of one
\* length are ordered by localeCompare in the code; two different keys of
\* one length never match at the same place, so their order among
\* themselves does not change what the alternation matches.
RECURSIVE orderedTokens(_)
orderedTokens(keys) ==
  IF keys = {} THEN <<>>
  ELSE LET k == CHOOSE x \in keys : \A y \in keys : Len(x) >= Len(y)
       IN  <<k>> \o orderedTokens(keys \ {k})

\* mentionRegex.exec in a loop: at each position the first alternative
\* that matches is taken; the matches come left to right, not overlapping.
RECURSIVE execFrom(_, _, _)
execFrom(text, alternatives, p) ==
  IF p > Len(text) THEN <<>>
  ELSE LET found == SelectSeq(alternatives, LAMBDA k : KeyAt(text, p, k)) IN
       IF found = <<>> THEN execFrom(text, alternatives, p + 1)
       ELSE <<[index |-> p, key |-> Head(found)]>>
              \o execFrom(text, alternatives, p + Len(Head(found)))

execAll(text, keys, p) == execFrom(text, orderedTokens(keys), p)

\* isSingleCharAliasStandaloneMatch.
isSingleCharAliasStandaloneMatch(text, match, tokenMeta) ==
  IF ~tokenMeta.isAlias \/ tokenMeta.charLength # 1 THEN TRUE
  ELSE LET start == match.index
           end == start + Len(match.key)
           prevChar == IF start > 1 THEN text[start - 1] ELSE "none"
           nextChar == IF end <= Len(text) THEN text[end] ELSE "none"
       IN  ~isWordLikeChar(prevChar) /\ ~isWordLikeChar(nextChar)

\* The matches of one text that are counted, and for whom.
CountedMatchesAnyOwners(text, matcher) ==
  LET ms == execAll(text, matcher.keys, 1) IN
  SelectSeq(ms, LAMBDA m :
    isSingleCharAliasStandaloneMatch(text, m, matcher.tokenMetaByKey[m.key]))

CountedMatches(text, matcher) ==
  LET ms == execAll(text, matcher.keys, 1) IN
  SelectSeq(ms, LAMBDA m :
    /\ Cardinality(matcher.tokenOwners[m.key]) = 1
    /\ isSingleCharAliasStandaloneMatch(text, m, matcher.tokenMetaByKey[m.key]))

OwnerOf(matcher, m) == matcher.tokenMetaByKey[m.key].personIndex

RECURSIVE SumSeq(_)
SumSeq(ns) == IF ns = <<>> THEN 0 ELSE Head(ns) + SumSeq(Tail(ns))

\* Stable sort of [name, count] items by count, largest first.
RECURSIVE SortByCount(_)
SortByCount(items) ==
  IF items = <<>> THEN <<>>
  ELSE LET top == CHOOSE i \in DOMAIN items :
                    /\ \A j \in DOMAIN items : items[i].count >= items[j].count
                    /\ \A j \in 1 .. i - 1 : items[j].count < items[i].count
       IN  <<items[top]>> \o
           SortByCount([j \in 1 .. Len(items) - 1 |->
                          IF j < top THEN items[j] ELSE items[j + 1]])

\* getPersonMentionStats over the person archives and the diary rows: each
\* row's plain_content is scanned; the result lists the persons that were
\* mentioned, most mentioned first.
MentionCounts(persons, rs) ==
  LET matcher == buildPersonMentionMatcher(persons) IN
  [i \in DOMAIN persons |->
     SumSeq([r \in DOMAIN rs |->
               Len(SelectSeq(CountedMatches(rs[r].plainContent, matcher),
                             LAMBDA m : OwnerOf(matcher, m) = i))])]

getPersonMentionStats(persons, rs) ==
  IF persons = <<>> THEN <<>>
  ELSE LET counts == MentionCounts(persons, rs)
           all == [i \in DOMAIN persons |-> [name |-> persons[i].name, count |-> counts[i]]]
       IN  SortByCount(SelectSeq(all, LAMBDA item : item.count > 0))

\* countMentionsForPerson.
countMentionsForPerson(text, personIndex, matcher) ==
  LET mine == SelectSeq(CountedMatches(text, matcher),
                        LAMBDA m : /\ personIndex \in matcher.tokenOwners[m.key]
                                   /\ OwnerOf(matcher, m) = personIndex)
  IN  [count |-> Len(mine), matchedKeys |-> {mine[i].key : i \in DOMAIN mine}]

\* text contains part.
Contains(text, part) ==
  \E p \in 1 .. Len(text) + 1 :
    /\ p + Len(part) - 1 <= Len(text)
    /\ \A j \in DOMAIN part : text[p + j - 1] = part[j]

\* The row filter of getPersonMentionDetails: LOWER(title) or
\* LOWER(plain_content) LIKE %token%.  The full-text index adds rows that hold
\* a token as a word; LIKE finds those rows too.
LikeLower(row, token) ==
  \/ Contains(toLocaleLowerCase(row.title), toLocaleLowerCase(token))
  \/ Contains(toLocaleLowerCase(row.plainContent), toLocaleLowerCase(token))

RECURSIVE Dedupe(_)
Dedupe(q) ==
  IF q = <<>> THEN <<>>
  ELSE LET rest == Dedupe(SelectSeq(Tail(q), LAMBDA x : x # Head(q)))
       IN  <<Head(q)>> \o rest

Slice(q, offset, limit) ==
  [i \in 1 .. Max(0, (IF Len(q) - offset > limit THEN limit ELSE Len(q) - offset)) |->
     q[offset + i]]

PersonIndex(matcher, personName) ==
  LET names == matcher.personNames
      exact == {i \in DOMAIN names : names[i] = personName}
      folded == {i \in DOMAIN names :
                   toLocaleLowerCase(names[i]) = toLocaleLowerCase(personName)}
      pick(S) == CHOOSE i \in S : \A j \in S : i <= j
  IN  IF exact # {} THEN pick(exact) ELSE IF folded # {} THEN pick(folded) ELSE 0

\* The computation getPersonMentionDetails makes on a cache miss: the rows
\* of the person, newest first, with their counts and matched keywords.
ComputeMentionEntries(personIndex, matcher, rs) ==
  LET keywords == Dedupe(matcher.personTokens[personIndex])
      coarse == SelectSeq(rs, LAMBDA row : \E i \in DOMAIN keywords : LikeLower(row, keywords[i]))
      item(row) ==
        LET c == countMentionsForPerson(row.title \o <<"\n">> \o row.plainContent,
                                        personIndex, matcher)
        IN  [id |-> row.id, title |-> row.title, content |-> row.plainContent,
             mentionCount |-> c.count,
             matchedKeywords |-> SelectSeq(keywords,
                                   LAMBDA tok : toLocaleLowerCase(tok) \in c.matchedKeys)]
      items == [i \in DOMAIN coarse |-> item(coarse[i])]
  IN  SelectSeq(items, LAMBDA it : it.mentionCount > 0)

PERSON_MENTION_CACHE_LIMIT == 6

CacheGet(cache, key) ==
  LET hit == {i \in DOMAIN cache : cache[i].key = key} IN
  IF hit = {} THEN <<>> ELSE <<cache[CHOOSE i \in hit : TRUE].entry>>

\* setPersonMentionCache: a new key beyond the limit evicts the oldest key.
setPersonMentionCache(cache, key, entry) ==
  LET hit == {i \in DOMAIN cache : cache[i].key = key} IN
  IF hit # {}
  THEN [cache EXCEPT ![CHOOSE i \in hit : TRUE] = [key |-> key, entry |-> entry]]
  ELSE LET kept == IF Len(cache) >= PERSON_MENTION_CACHE_LIMIT THEN Tail(cache) ELSE cache
       IN  Append(kept, [key |-> key, entry |-> entry])

\* getPersonMentionDetails: the result and the cache it leaves.
getPersonMentionDetails(persons, rs, cache, personName, offset, limit) ==
  LET none == [result |-> [personName |-> personName, keywords |-> <<personName>>,
                           entries |-> <<>>, total |-> 0],
               cache |-> cache]
  IN  IF persons = <<>> THEN none
      ELSE
      LET matcher == buildPersonMentionMatcher(persons)
          personIndex == PersonIndex(matcher, personName)
      IN  IF personIndex = 0 THEN none
          ELSE
          LET name == matcher.personNames[personIndex]
              keywords == Dedupe(matcher.personTokens[personIndex])
              cacheKey == toLocaleLowerCase(name)
              cached == CacheGet(cache, cacheKey)
          IN  IF cached # <<>>
              THEN [result |-> [personName |-> cached[1].personName,
                                keywords |-> cached[1].keywords,
                                entries |-> Slice(cached[1].entries, offset, limit),
                                total |-> Len(cached[1].entries)],
                    cache |-> cache]
              ELSE LET all == ComputeMentionEntries(personIndex, matcher, rs) IN
                   [result |-> [personName |-> name, keywords |-> keywords,
                                entries |-> Slice(all, offset, limit),
                                total |-> Len(all)],
                    cache |-> setPersonMentionCache(cache, cacheKey,
                                [personName |-> name, keywords |-> keywords,
                                 entries |-> all])]

----------------------------------------------------------------------------
\* Mention counting over bounded archives and texts.

MaxText == 2

\* U+20BB7, a letter outside the Basic Multilingual Plane: two code units.
AstralLetter == <<"HI", "LO">>

TextChars == {<<"A">>, <<"X">>, <<"Y">>, <<Blank>>, AstralLetter}

RECURSIVE TextsUpTo(_)
TextsUpTo(n) ==
  IF n = 0 THEN {<<>>}
  ELSE LET shorter == TextsUpTo(n - 1) IN
       shorter \cup {t \o c : t \in shorter, c \in TextChars}

AGiantCat == <<"A", " ", "g", "i", "a", "n", "t", " ", "c", "a", "t">>
XAY == <<"X", "A", "Y">>
Ann == [name |-> <<"A", "n", "n">>, alias |-> << <<"A">> >>]

MentionTexts == TextsUpTo(MaxText) \cup {AGiantCat, XAY}

PersonArchives ==
  { Ann,
    [name |-> <<"X">>, alias |-> << <<"a">> >>],
    [name |-> <<"A">>, alias |-> << <<"X", "Y">> >>] }

PeopleLists ==
  {<<>>} \cup {<<p>> : p \in PersonArchives}
         \cup {pq \in {<<p, q>> : p \in PersonArchives, q \in PersonArchives} :
                  pq[1] # pq[2]}

\* One stored entry: any text under an empty title, and two entries that
\* name a person in the title.
MentionRows ==
  {<<[id |-> 1, title |-> <<>>, plainContent |-> tx]>> : tx \in MentionTexts}
    \cup {<<[id |-> 1, title |-> <<"A">>, plainContent |-> tx]>> : tx \in {<<>>, XAY}}

DefaultMentionLimit == 50

GetPersonMentionStats ==
  /\ lastQuery' = [fn |-> "stats",
                   counts |-> MentionCounts(people, rows),
                   result |-> getPersonMentionStats(people, rows)]
  /\ UNCHANGED <<disk, rows, people, personMentionDetailCache>>

GetPersonMentionDetails(personName) ==
  LET r == getPersonMentionDetails(people, rows, personMentionDetailCache,
                                   personName, 0, DefaultMentionLimit)
  IN  /\ lastQuery' = [fn |-> "details", personName |-> personName,
                       result |-> r.result]
      /\ personMentionDetailCache' = r.cache
      /\ UNCHANGED <<disk, rows, people>>

InitMention ==
  /\ StoreInit /\ FilesIdle /\ XferIdle /\ ReqsIdle
  /\ disk = NoDisk
  /\ people \in PeopleLists
  /\ rows \in MentionRows
  /\ personMentionDetailCache = <<>>
  /\ lastQuery = NoQuery
  /\ AuxIdle

NextMention ==
  /\ \/ GetPersonMentionStats
     \/ \E i \in DOMAIN people : GetPersonMentionDetails(people[i].name)
  /\ UNCHANGED <<storeVars, fileVars, xferVars, reqs>>
  /\ UNCHANGED auxVars

SpecMention == InitMention /\ [][NextMention]_vars

\* The text getPersonMentionDetails scans for one row.
DetailText(row) == row.title \o <<"\n">> \o row.plainContent

\* The matches in a text of the tokens that belong to person i alone.
OwnMatches(text, matcher, i) ==
  SelectSeq(execAll(text, matcher.keys, 1),
            LAMBDA m : matcher.tokenOwners[m.key] = {i})

SharedKeys(matcher) == {k \in matcher.keys : Cardinality(matcher.tokenOwners[k]) >= 2}

\* C13: a token that belongs to two or more person archives never adds to
\* any person's mention count: each count of getPersonMentionStats and of
\* getPersonMentionDetails is at most the number of matches of the tokens
\* the person owns alone, and no shared token is listed as matched.
C13_SharedTokenNeverCounted ==
  LET matcher == buildPersonMentionMatcher(people) IN
  /\ lastQuery.fn = "stats" =>
       \A i \in DOMAIN people :
         lastQuery.counts[i] <=
           SumSeq([r \in DOMAIN rows |->
                     Len(OwnMatches(rows[r].plainContent, matcher, i))])
  /\ lastQuery.fn = "details" =>
       LET i == PersonIndex(matcher, lastQuery.personName)
           es == lastQuery.result.entries
       IN  \A e \in DOMAIN es :
             \E r \in DOMAIN rows :
               /\ rows[r].id = es[e].id
               /\ es[e].mentionCount <= Len(OwnMatches(DetailText(rows[r]), matcher, i))
               /\ \A k \in DOMAIN es[e].matchedKeywords :
                    toLocaleLowerCase(es[e].matchedKeywords[k]) \notin SharedKeys(matcher)

\* A shared token occurs in the scanned text and the statistics were computed.
C13_Witness ==
  /\ lastQuery.fn = "stats"
  /\ LET matcher == buildPersonMentionMatcher(people)
         ms == execAll(rows[1].plainContent, matcher.keys, 1)
     IN  \E m \in DOMAIN ms : ms[m].key \in SharedKeys(matcher)

\* The character (code point) that ends just before a position, and the one
\* that starts at a position; <<>> at the start and the end of the text.
CharBefore(text, start) ==
  IF start <= 1 THEN <<>>
  ELSE IF start > 2 /\ text[start - 1] = "LO" /\ text[start - 2] = "HI" THEN AstralLetter
  ELSE <<text[start - 1]>>

CharAt(text, pos) ==
  IF pos > Len(text) THEN <<>>
  ELSE IF pos < Len(text) /\ text[pos] = "HI" /\ text[pos + 1] = "LO" THEN AstralLetter
  ELSE <<text[pos]>>

IsLetterOrDigit(ch) ==
  \/ ch = AstralLetter
  \/ Len(ch) = 1 /\ ch[1] \in UpperCase \cup LowerCase

\* The matches the stated rule counts for person i.
StandaloneRuleMatches(text, matcher, i) ==
  SelectSeq(OwnMatches(text, matcher, i),
            LAMBDA m :
              LET meta == matcher.tokenMetaByKey[m.key] IN
              (meta.isAlias /\ meta.charLength = 1) =>
                /\ ~IsLetterOrDigit(CharBefore(text, m.index))
                /\ ~IsLetterOrDigit(CharAt(text, m.index + Len(m.key))))

\* C14: a match of a single-character alias is counted iff neither the
\* character before it nor the character after it is a letter or digit;
\* other matches are counted without this check.
C14_SingleCharAliasStandalone ==
  lastQuery.fn = "stats" =>
    LET matcher == buildPersonMentionMatcher(people) IN
    \A i \in DOMAIN people :
      lastQuery.counts[i] =
        SumSeq([r \in DOMAIN rows |->
                  Len(StandaloneRuleMatches(rows[r].plainContent, matcher, i))])

\* C15 as stated: with the one archive Ann (alias "A"), neither "A giant cat"
\* nor "XAY" yields a mention.
C15_NoMentionInEitherText ==
  (/\ lastQuery.fn = "stats"
   /\ people = <<Ann>>
   /\ rows[1].plainContent \in {AGiantCat, XAY})
    => lastQuery.counts[1] = 0 /\ lastQuery.result = <<>>

\* C15, amended: "A giant cat" yields exactly one mention of Ann (the "A"
\* that stands alone at the start; the "a" inside "giant" and "cat" is not
\* counted), and "XAY" yields none.
C15_StandaloneCountedEmbeddedNot ==
  (lastQuery.fn = "stats" /\ people = <<Ann>>) =>
    /\ rows[1].plainContent = AGiantCat =>
         /\ lastQuery.counts[1] = 1
         /\ lastQuery.result = <<[name |-> Ann.name, count |-> 1]>>
    /\ rows[1].plainContent = XAY =>
         /\ lastQuery.counts[1] = 0
         /\ lastQuery.result = <<>>

C15_Witness ==
  /\ lastQuery.fn = "stats"
  /\ people = <<Ann>>
  /\ rows[1].plainContent = AGiantCat
  /\ lastQuery.counts[1] = 1

----------------------------------------------------------------------------
\* The mention-detail cache under the handlers that change entries and
\* archives.  A handler that has written the store and waits for
\* cleanupReleasedImages is the one element of reqs; one such handler is
\* followed at a time.

invalidatePersonMentionCache(cache) == <<>>

AnnX == [name |-> <<"A", "n", "n">>, alias |-> << <<"X">> >>]
CachePeople == {<<>>, <<Ann>>, <<AnnX>>}
CacheTexts == {<<"A">>, <<"X">>}
CacheRow(tx) == [id |-> 1, title |-> <<>>, plainContent |-> tx]
MentionFaults == {"none", "sync"}

Awaiting(op) == <<[op |-> op, pc |-> "cleanup"]>>
Completed(op, threw) == [fn |-> op, threw |-> threw]

\* diary:save: saveDiaryEntry writes the row and clears the cache; then
\* syncImageRefs (which may throw) and the wait for the cleanup.
MentionDiarySave(tx, F) ==
  /\ reqs = <<>>
  /\ rows' = <<CacheRow(tx)>>
  /\ personMentionDetailCache' = invalidatePersonMentionCache(personMentionDetailCache)
  /\ IF F = "sync"
     THEN /\ lastQuery' = Completed("diary:save", "sync")
          /\ UNCHANGED reqs
     ELSE /\ lastQuery' = [fn |-> "diary:save", threw |-> "pending"]
          /\ reqs' = Awaiting("diary:save")
  /\ UNCHANGED <<disk, people>>

\* diary:delete: deleteDiaryEntry clears the cache when a row was deleted;
\* without a row the handler returns false at once.
MentionDiaryDelete(F) ==
  /\ reqs = <<>>
  /\ IF rows = <<>>
     THEN /\ lastQuery' = [fn |-> "diary:delete", threw |-> "no row"]
          /\ UNCHANGED <<rows, personMentionDetailCache, reqs>>
     ELSE /\ rows' = <<>>
          /\ personMentionDetailCache' = invalidatePersonMentionCache(personMentionDetailCache)
          /\ IF F = "sync"
             THEN /\ lastQuery' = Completed("diary:delete", "sync")
                  /\ UNCHANGED reqs
             ELSE /\ lastQuery' = [fn |-> "diary:delete", threw |-> "pending"]
                  /\ reqs' = Awaiting("diary:delete")
  /\ UNCHANGED <<disk, people>>

\* archives:save: archives.save writes the archive; syncImageRefs may throw,
\* and the handler then rejects; otherwise it waits for the cleanup.
MentionArchivesSave(ps, F) ==
  /\ reqs = <<>>
  /\ ps # <<>>
  /\ people' = ps
  /\ IF F = "sync"
     THEN /\ lastQuery' = Completed("archives:save", "sync")
          /\ UNCHANGED reqs
     ELSE /\ lastQuery' = [fn |-> "archives:save", threw |-> "pending"]
          /\ reqs' = Awaiting("archives:save")
  /\ UNCHANGED <<disk, rows, personMentionDetailCache>>

\* archives:delete.
MentionArchivesDelete(F) ==
  /\ reqs = <<>>
  /\ people # <<>>
  /\ people' = <<>>
  /\ IF F = "sync"
     THEN /\ lastQuery' = Completed("archives:delete", "sync")
          /\ UNCHANGED reqs
     ELSE /\ lastQuery' = [fn |-> "archives:delete", threw |-> "pending"]
          /\ reqs' = Awaiting("archives:delete")
  /\ UNCHANGED <<disk, rows, personMentionDetailCache>>

\* cleanupReleasedImages settles: the handler clears the cache and returns.
HandlerSettles ==
  /\ reqs # <<>>
  /\ personMentionDetailCache' = invalidatePersonMentionCache(personMentionDetailCache)
  /\ lastQuery' = Completed(reqs[1].op, "none")
  /\ reqs' = <<>>
  /\ UNCHANGED <<disk, rows, people>>

\* data:import that succeeds: reopenDatabase opens the imported store and
\* clears the cache, and so does the handler.
MentionDataImport(ps, rs) ==
  /\ reqs = <<>>
  /\ people' = ps
  /\ rows' = rs
  /\ personMentionDetailCache' = invalidatePersonMentionCache(personMentionDetailCache)
  /\ lastQuery' = Completed("data:import", "none")
  /\ UNCHANGED <<disk, reqs>>

\* stats:personMentionDetails, at any time, also while a handler waits.
StatsPersonMentionDetails(personName) ==
  /\ GetPersonMentionDetails(personName)
  /\ UNCHANGED reqs

InitCache ==
  /\ StoreInit /\ FilesIdle /\ XferIdle /\ ReqsIdle
  /\ disk = NoDisk
  /\ people = <<>>
  /\ rows = <<>>
  /\ personMentionDetailCache = <<>>
  /\ lastQuery = NoQuery
  /\ AuxIdle

NextCache ==
  /\ \/ \E tx \in CacheTexts, F \in MentionFaults : MentionDiarySave(tx, F)
     \/ \E F \in MentionFaults : MentionDiaryDelete(F)
     \/ \E ps \in CachePeople, F \in MentionFaults : MentionArchivesSave(ps, F)
     \/ \E F \in MentionFaults : MentionArchivesDelete(F)
     \/ HandlerSettles
     \/ \E ps \in CachePeople, tx \in CacheTexts : MentionDataImport(ps, <<CacheRow(tx)>>)
     \/ StatsPersonMentionDetails(Ann.name)
  /\ UNCHANGED <<storeVars, fileVars, xferVars>>
  /\ UNCHANGED auxVars

SpecCache == InitCache /\ [][NextCache]_vars

MutationHandlers ==
  {"diary:save", "diary:delete", "archives:save", "archives:delete", "data:import"}

\* C12: once a diary or archive save or delete, or a successful import, has
\* completed (normally, or with an error after its store write), the
\* mention-detail cache is empty, and while no such handler is running a
\* getPersonMentionDetails call returns what the computation without a
\* cache returns over the current entries and archives.
C12_CacheClearedByMutation ==
  /\ (lastQuery.fn \in MutationHandlers /\ lastQuery.threw \in {"none", "sync"})
       => personMentionDetailCache = <<>>
  /\ (lastQuery.fn = "details" /\ reqs = <<>>)
       => lastQuery.result =
            getPersonMentionDetails(people, rows, <<>>, lastQuery.personName,
                                    0, DefaultMentionLimit).result

----------------------------------------------------------------------------
\* searchDiaries.

\* SQLite's LOWER and its LIKE fold the case of ASCII letters only.
NonAscii == {"É", "é", "HI", "LO"}
sqliteLowerChar(c) == IF c \in NonAscii THEN c ELSE toLowerChar(c)
sqliteLower(t) == [i \in DOMAIN t |-> sqliteLowerChar(t[i])]

\* text LIKE '%part%' (with COLLATE NOCASE or not: LIKE ignores ASCII case).
Like(text, part) == Contains(sqliteLower(text), sqliteLower(part))

\* The unicode61 tokenizer folds case and removes diacritics.
ftsFoldChar(c) == IF c \in {"É", "é"} THEN "e" ELSE toLowerChar(c)
ftsFold(t) == [i \in DOMAIN t |-> ftsFoldChar(t[i])]

\* The pieces of a text between separators, empty pieces left out.
RECURSIVE SplitOn(_, _, _)
SplitOn(text, seps, piece) ==
  IF text = <<>> THEN (IF piece = <<>> THEN <<>> ELSE <<piece>>)
  ELSE IF Head(text) \in seps
       THEN (IF piece = <<>> THEN <<>> ELSE <<piece>>) \o SplitOn(Tail(text), seps, <<>>)
       ELSE SplitOn(Tail(text), seps, Append(piece, Head(text)))

Whitespace == {Blank, "\n"}

Range(q) == {q[i] : i \in DOMAIN q}

\* expandKeywordWithArchiveAliases: the keyword, then the name and the
\* aliases of every archive whose LOWER(name) or LOWER(alias) is LIKE the
\* lower-cased keyword.  The alias column is matched as a whole; a keyword
\* without a separator matches it iff it matches one of its aliases.
RECURSIVE NamesOf(_)
NamesOf(as) ==
  IF as = <<>> THEN <<>>
  ELSE <<Head(as).name>> \o Head(as).alias \o NamesOf(Tail(as))

expandKeywordWithArchiveAliases(keyword, as) ==
  LET lowerKw == toLocaleLowerCase(keyword)
      hit(a) == \/ Like(sqliteLower(a.name), lowerKw)
                \/ \E i \in DOMAIN a.alias : Like(sqliteLower(a.alias[i]), lowerKw)
      found == SelectSeq(as, hit)
  IN  Dedupe(<<keyword>> \o NamesOf(found))

\* The keyword groups of searchDiaries: one group per term.
KeywordTerms(keyword) == SplitOn(keyword, Whitespace, <<>>)

KeywordGroups(keyword, as) ==
  LET terms == KeywordTerms(keyword) IN
  [i \in DOMAIN terms |-> expandKeywordWithArchiveAliases(terms[i], as)]

RECURSIVE NamesOfGroups(_)
NamesOfGroups(groups) ==
  IF groups = <<>> THEN <<>> ELSE Head(groups) \o NamesOfGroups(Tail(groups))

\* The row is in diary_search_fts MATCH for the groups: for each group one
\* of its keywords is a token of the title or of the plain text.
FtsTokens(row) ==
  {ftsFold(t) : t \in Range(SplitOn(row.title, Whitespace, <<>>))
                        \cup Range(SplitOn(row.plainContent, Whitespace, <<>>))}

FtsMatch(row, groups) ==
  \A g \in DOMAIN groups :
    \E k \in DOMAIN groups[g] : ftsFold(groups[g][k]) \in FtsTokens(row)

LikeMatch(row, groups) ==
  \A g \in DOMAIN groups :
    \E k \in DOMAIN groups[g] :
      Like(row.title, groups[g][k]) \/ Like(row.plainContent, groups[g][k])

\* Ticks per local day, for the exclusive upper date bound.
DayTicks == 2
dateToExclusive(dateTo) == ((dateTo \div DayTicks) + 1) * DayTicks

\* Rows ordered by created_at, newest first.
RECURSIVE OrderByCreatedAtDesc(_)
OrderByCreatedAtDesc(rs) ==
  IF rs = <<>> THEN <<>>
  ELSE LET top == CHOOSE i \in DOMAIN rs : \A j \in DOMAIN rs : rs[i].createdAt >= rs[j].createdAt
       IN  <<rs[top]>> \o
           OrderByCreatedAtDesc([j \in 1 .. Len(rs) - 1 |->
                                   IF j < top THEN rs[j] ELSE rs[j + 1]])

DefaultSearchLimit == 20

\* An absent parameter is <<>>, a present one is <<value>>.
NoParams == [keyword |-> <<>>, mood |-> <<>>, tags |-> <<>>,
             dateFrom |-> <<>>, dateTo |-> <<>>]

tagFilter(row, tags) ==
  Cardinality({t \in row.tags : t \in Range(tags)}) = Len(tags)

searchDiaries(params, rs, as) ==
  LET hasKeyword == params.keyword # <<>> /\ KeywordTerms(params.keyword[1]) # <<>>
      keywordGroups == IF hasKeyword THEN KeywordGroups(params.keyword[1], as) ELSE <<>>
      allExpandedKeywords == Dedupe(NamesOfGroups(keywordGroups))
      where(row) ==
        /\ keywordGroups # <<>> => (FtsMatch(row, keywordGroups) \/ LikeMatch(row, keywordGroups))
        /\ params.mood # <<>> => row.mood = params.mood[1]
        /\ params.dateFrom # <<>> => row.createdAt >= params.dateFrom[1]
        /\ params.dateTo # <<>> => row.createdAt < dateToExclusive(params.dateTo[1])
        /\ params.tags # <<>> => tagFilter(row, params.tags)
      selected == OrderByCreatedAtDesc(SelectSeq(rs, where))
      page == Slice(selected, 0, DefaultSearchLimit)
  IN  [entries |-> [i \in DOMAIN page |-> page[i].id],
       total |-> Len(selected),
       expandedKeywords |-> IF allExpandedKeywords # <<>>
                            THEN <<allExpandedKeywords>> ELSE <<>>,
       queries |-> <<"count", "select">>]

MaxTerms == 2
MaxTags == 3

Bob == <<"B", "o", "b">>
Bobby == <<"B", "o", "b", "b", "y">>
Eva == <<"É", "v", "a">>
Evi == <<"E", "v", "i">>

BobArchive == [name |-> Bob, alias |-> <<Bobby>>]
EvaArchive == [name |-> Eva, alias |-> <<Evi>>]
SearchArchives == {<<>>, <<BobArchive>>, <<EvaArchive>>, <<BobArchive, EvaArchive>>}

SearchTags == {"travel", "food", "work"}

SearchEntry(id, title, text, mood, tags, at) ==
  [id |-> id, title |-> title, plainContent |-> text, mood |-> mood,
   tags |-> tags, createdAt |-> at]

SearchCatalogue ==
  << SearchEntry(1, <<>>, Bob, "happy", {"travel", "food"}, 1),
     SearchEntry(2, <<>>, Bobby, "sad", {"travel", "food", "work"}, 2),
     SearchEntry(3, <<>>, Evi, "happy", {}, 3),
     SearchEntry(4, <<"y">>, <<"x", " ">> \o Eva, "sad", {"work"}, 4) >>

\* The stores: every selection of catalogue entries.
SearchStores ==
  {SelectSeq(SearchCatalogue, LAMBDA e : e.id \in ids) :
     ids \in SUBSET {SearchCatalogue[i].id : i \in DOMAIN SearchCatalogue}}

SearchTerms == {Bob, <<"b", "o", "b">>, Eva, <<"x">>}

RECURSIVE JoinTerms(_)
JoinTerms(terms) ==
  IF terms = <<>> THEN <<>>
  ELSE IF Len(terms) = 1 THEN terms[1]
  ELSE terms[1] \o <<Blank>> \o JoinTerms(Tail(terms))

RECURSIVE TermLists(_)
TermLists(n) ==
  IF n = 0 THEN {<<>>}
  ELSE LET shorter == TermLists(n - 1) IN
       shorter \cup {Append(ts, t) : ts \in shorter, t \in SearchTerms}

\* Keywords: up to MaxTerms terms joined by blanks, a blank keyword, and a
\* keyword with blanks around its term.
SearchKeywords ==
  {JoinTerms(ts) : ts \in TermLists(MaxTerms)}
    \cup {<<Blank>>, <<Blank>> \o Bob \o <<Blank, Blank>>}

RECURSIVE TagLists(_)
TagLists(n) ==
  IF n = 0 THEN {<<>>}
  ELSE LET shorter == TagLists(n - 1) IN
       shorter \cup {Append(ts, t) : ts \in shorter, t \in SearchTags}

Optional(S) == {<<>>} \cup {<<x>> : x \in S}

\* One call is followed from each store; a call changes no store state.
Search(params) ==
  /\ lastQuery = NoQuery
  /\ lastQuery' = [fn |-> "search", params |-> params,
                   result |-> searchDiaries(params, rows, people)]
  /\ UNCHANGED <<disk, rows, people, personMentionDetailCache>>

\* diary:search with a keyword only.
SearchByKeyword == \E kw \in SearchKeywords : Search([NoParams EXCEPT !.keyword = <<kw>>])

\* diary:search with filters and no keyword.
SearchByFilters ==
  \E tags \in TagLists(MaxTags), mood \in Optional({"happy"}),
     from \in Optional({2}), to \in Optional({2}) :
    Search([NoParams EXCEPT !.tags = tags, !.mood = mood,
                            !.dateFrom = from, !.dateTo = to])

\* diary:search with a keyword and a tag.
SearchByKeywordAndTag ==
  \E kw \in {Bob, <<Blank>>}, tags \in TagLists(1) :
    Search([NoParams EXCEPT !.keyword = <<kw>>, !.tags = tags])

InitSearch ==
  /\ StoreInit /\ FilesIdle /\ XferIdle /\ ReqsIdle
  /\ disk = NoDisk
  /\ people \in SearchArchives
  /\ rows \in SearchStores
  /\ personMentionDetailCache = <<>>
  /\ lastQuery = NoQuery
  /\ AuxIdle

NextSearch ==
  /\ \/ SearchByKeyword
     \/ SearchByFilters
     \/ SearchByKeywordAndTag
  /\ UNCHANGED <<storeVars, fileVars, xferVars, reqs>>
  /\ UNCHANGED auxVars

SpecSearch == InitSearch /\ [][NextSearch]_vars

\* text contains part, case-insensitively.
ContainsFolded(text, part) ==
  Contains(toLocaleLowerCase(text), toLocaleLowerCase(part))

\* The OR-set of a term: the term, and the name and the aliases of every
\* archive whose name or one of whose aliases contains the term.
OrSet(term, as) ==
  {term} \cup UNION {{as[i].name} \cup Range(as[i].alias) :
                       i \in {j \in DOMAIN as :
                                \/ ContainsFolded(as[j].name, term)
                                \/ \E k \in DOMAIN as[j].alias :
                                     ContainsFolded(as[j].alias[k], term)}}

EveryTermOccurs(row, keyword, as) ==
  \A term \in Range(KeywordTerms(keyword)) :
    \E m \in OrSet(term, as) :
      ContainsFolded(row.title, m) \/ ContainsFolded(row.plainContent, m)

KeywordOnly(params) ==
  /\ params.keyword # <<>> /\ KeywordTerms(params.keyword[1]) # <<>>
  /\ params.mood = <<>> /\ params.tags = <<>>
  /\ params.dateFrom = <<>> /\ params.dateTo = <<>>

\* C16: a keyword query returns every entry in which, for each term, a
\* member of the term's OR-set occurs case-insensitively in the title or the
\* plain text; with the archive Bob (alias Bobby) the term Bob finds the
\* entries with Bob and with Bobby, and expandedKeywords contains Bobby.
C16_KeywordSearchComplete ==
  (lastQuery.fn = "search" /\ KeywordOnly(lastQuery.params)) =>
    /\ \A r \in DOMAIN rows :
         EveryTermOccurs(rows[r], lastQuery.params.keyword[1], people)
           => rows[r].id \in Range(lastQuery.result.entries)
    /\ (lastQuery.params.keyword[1] = Bob /\ BobArchive \in Range(people)) =>
         /\ Bobby \in Range(lastQuery.result.expandedKeywords[1])
         /\ \A r \in DOMAIN rows :
              rows[r].plainContent \in {Bob, Bobby}
                => rows[r].id \in Range(lastQuery.result.entries)

\* C17: with a tag filter an entry is returned iff it carries every tag the
\* filter list names, whether or not the list names a tag twice.
C17_TagFilterAllTags ==
  (/\ lastQuery.fn = "search"
   /\ lastQuery.params = [NoParams EXCEPT !.tags = lastQuery.params.tags]
   /\ lastQuery.params.tags # <<>>) =>
    \A r \in DOMAIN rows :
      rows[r].id \in Range(lastQuery.result.entries)
        <=> Range(lastQuery.params.tags) \subseteq rows[r].tags

EmptyParams(params) ==
  /\ params.keyword = <<>> \/ KeywordTerms(params.keyword[1]) = <<>>
  /\ params.mood = <<>> /\ params.tags = <<>>
  /\ params.dateFrom = <<>> /\ params.dateTo = <<>>

\* C18: with no keyword (or a blank one) and no filter, searchDiaries returns
\* no entry and total 0 and runs no query.
C18_EmptyParamsEmptyResult ==
  (lastQuery.fn = "search" /\ EmptyParams(lastQuery.params)) =>
    /\ lastQuery.result.entries = <<>>
    /\ lastQuery.result.total = 0
    /\ lastQuery.result.queries = <<>>

\* C19: expandedKeywords is defined only when the OR-set of at least one
\* term has more members than the term itself.
C19_ExpandedOnlyWhenExpanded ==
  (lastQuery.fn = "search" /\ lastQuery.result.expandedKeywords # <<>>) =>
    /\ lastQuery.params.keyword # <<>>
    /\ \E term \in Range(KeywordTerms(lastQuery.params.keyword[1])) :
         OrSet(term, people) # {term}

----------------------------------------------------------------------------
\* saveDiaryEntry on the level of characters.  A text is a sequence of
\* symbols: "<", ">", "/", "s" (the name of a blocked tag, script), "p" (the
\* tag name p), "x" (a letter of text) and "\n".  The texts hold no
\* whitespace before an attribute and no "&", so the attribute passes of
\* sanitizeDiaryHtml and the entity passes of stripHtmlToPlain leave them as
\* they are.

WordSymbols == {"s", "p", "x"}

\* The index of the first ">" at or after position p; 0 when there is none.
FirstClose(t, p) ==
  LET S == {q \in p .. Len(t) : t[q] = ">"} IN
  IF S = {} THEN 0 ELSE CHOOSE q \in S : \A r \in S : q <= r

\* <\s*(script|...)\b[^>]*> at position p: the index of its ">"; 0 when the
\* pattern does not match there.
OpenTagEnd(t, p) ==
  IF /\ p + 2 <= Len(t)
     /\ t[p] = "<" /\ t[p + 1] = "s"
     /\ t[p + 2] \notin WordSymbols
  THEN FirstClose(t, p + 2) ELSE 0

\* <\s*\/\s*\1\s*> at position q.
CloseTagAt(t, q) ==
  /\ q + 3 <= Len(t)
  /\ t[q] = "<" /\ t[q + 1] = "/" /\ t[q + 2] = "s" /\ t[q + 3] = ">"

\* The end of the match of the first pass at position p (the open tag, the
\* shortest text, the close tag); 0 when there is no match.
PairEnd(t, p) ==
  LET e == OpenTagEnd(t, p) IN
  IF e = 0 THEN 0
  ELSE LET S == {q \in e + 1 .. Len(t) : CloseTagAt(t, q)} IN
       IF S = {} THEN 0 ELSE (CHOOSE q \in S : \A r \in S : q <= r) + 3

\* <[^>]*> at position p.
AnyTagEnd(t, p) == IF t[p] = "<" THEN FirstClose(t, p + 1) ELSE 0

\* The end of the match of a regex at a position; 0 when it does not match.
MatchEnd(regex, t, p) ==
  CASE regex = "blocked element" -> PairEnd(t, p)
    [] regex = "blocked tag" -> OpenTagEnd(t, p)
    [] regex = "any tag" -> AnyTagEnd(t, p)

\* text.replace(regex, '') with the g flag.
RECURSIVE RemoveFrom(_, _, _)
RemoveFrom(t, p, regex) ==
  IF p > Len(t) THEN <<>>
  ELSE LET e == MatchEnd(regex, t, p) IN
       IF e # 0 THEN RemoveFrom(t, e + 1, regex)
       ELSE <<t[p]>> \o RemoveFrom(t, p + 1, regex)

\* sanitizeDiaryHtml: blocked elements with their text, then the blocked
\* tags that are left.
sanitizeHtml(content) ==
  RemoveFrom(RemoveFrom(content, 1, "blocked element"), 1, "blocked tag")

\* </p> at position p.
ParagraphEnd(t, p) ==
  IF /\ p + 3 <= Len(t)
     /\ t[p] = "<" /\ t[p + 1] = "/" /\ t[p + 2] = "p" /\ t[p + 3] = ">"
  THEN p + 3 ELSE 0

RECURSIVE ReplaceParagraphEnds(_, _)
ReplaceParagraphEnds(t, p) ==
  IF p > Len(t) THEN <<>>
  ELSE LET e == ParagraphEnd(t, p) IN
       IF e # 0 THEN <<"\n">> \o ReplaceParagraphEnds(t, e + 1)
       ELSE <<t[p]>> \o ReplaceParagraphEnds(t, p + 1)

\* \n{3,} -> \n\n.
RECURSIVE CollapseNewlines(_, _)
CollapseNewlines(t, run) ==
  IF t = <<>> THEN <<>>
  ELSE IF Head(t) = "\n"
       THEN (IF run >= 2 THEN <<>> ELSE <<"\n">>) \o CollapseNewlines(Tail(t), run + 1)
       ELSE <<Head(t)>> \o CollapseNewlines(Tail(t), 0)

RECURSIVE TrimStart(_)
TrimStart(t) ==
  IF t # <<>> /\ Head(t) \in Whitespace THEN TrimStart(Tail(t)) ELSE t

Reverse(t) == [i \in DOMAIN t |-> t[Len(t) + 1 - i]]
Trim(t) == Reverse(TrimStart(Reverse(TrimStart(t))))

\* stripHtmlToPlain.
stripHtmlToPlain(html) ==
  Trim(CollapseNewlines(RemoveFrom(ReplaceParagraphEnds(html, 1), 1, "any tag"), 0))

MaxFragments == 3

HtmlFragments ==
  { <<"x">>,
    <<"<", "p", ">">>, <<"<", "/", "p", ">">>,
    <<"<", "s", ">">>, <<"<", "/", "s", ">">>,
    <<"<", "<", "s", ">", "s", ">">>,
    <<"<", "<", "s", ">", "/", "s", ">">> }

RECURSIVE HtmlInputs(_)
HtmlInputs(n) ==
  IF n = 0 THEN {<<>>}
  ELSE LET shorter == HtmlInputs(n - 1) IN
       shorter \cup {h \o f : h \in shorter, f \in HtmlFragments}

\* saveDiaryEntry: the row of the entry is updated, or inserted at the end.
saveDiaryEntryRow(rs, id, content) ==
  LET sanitizedContent == sanitizeHtml(content)
      row == [id |-> id, content |-> sanitizedContent,
              plainContent |-> stripHtmlToPlain(sanitizedContent)]
  IN  IF \E i \in DOMAIN rs : rs[i].id = id
      THEN [i \in DOMAIN rs |-> IF rs[i].id = id THEN row ELSE rs[i]]
      ELSE Append(rs, row)

SaveDiaryEntry(id, content) ==
  /\ rows' = saveDiaryEntryRow(rows, id, content)
  /\ personMentionDetailCache' = invalidatePersonMentionCache(personMentionDetailCache)
  /\ lastQuery' = [fn |-> "saveDiaryEntry", id |-> id]
  /\ UNCHANGED <<disk, people>>

InitPlain ==
  /\ StoreInit /\ FilesIdle /\ XferIdle /\ ReqsIdle
  /\ TextIdle /\ AuxIdle

\* The first entry is inserted once, with any input; the second is inserted
\* and updated with the inputs of one fragment.
NextPlain ==
  /\ \/ /\ \A i \in DOMAIN rows : rows[i].id # "e1"
        /\ \E content \in HtmlInputs(MaxFragments) : SaveDiaryEntry("e1", content)
     \/ \E content \in HtmlInputs(1) : SaveDiaryEntry("e2", content)
  /\ UNCHANGED <<storeVars, fileVars, xferVars, reqs>>
  /\ UNCHANGED auxVars

SpecPlain == InitPlain /\ [][NextPlain]_vars

\* C20: after every saveDiaryEntry, the stored plain text of every stored
\* entry is the plain text of its sanitized stored content.
C20_PlainContentOfStoredContent ==
  lastQuery.fn = "saveDiaryEntry" =>
    \A i \in DOMAIN rows :
      rows[i].plainContent = stripHtmlToPlain(sanitizeHtml(rows[i].content))

----------------------------------------------------------------------------
\* saveDiaryEntry: update or insert, ids and times.

MaxNow == 2
MaxRows == 2

CallerIds == {"e1", "e2"}
UuidIds == {"u1", "u2"}
Times == 0 .. MaxNow

StoredIds(rs) == {rs[i].id : i \in DOMAIN rs}

\* The save transaction of saveDiaryEntry on rows [id, createdAt, updatedAt]:
\* entry.id is <<>> when absent, fresh is what randomUUID() returns, now is
\* Date.now().  Gives the rows and the id the transaction returns.
saveDiaryEntryUpsert(rs, entry, fresh, now) ==
  LET existing == entry.id # <<>> /\ entry.id[1] \in StoredIds(rs) IN
  IF existing
  THEN [rows |-> [i \in DOMAIN rs |->
                    IF rs[i].id = entry.id[1] THEN [rs[i] EXCEPT !.updatedAt = now]
                    ELSE rs[i]],
        id |-> entry.id[1]]
  ELSE LET id == IF entry.id # <<>> THEN entry.id[1] ELSE fresh
           createdAt == IF entry.createdAt # <<>> THEN entry.createdAt[1] ELSE now
       IN  [rows |-> Append(rs, [id |-> id, createdAt |-> createdAt, updatedAt |-> now]),
            id |-> id]

\* saveDiaryEntry(entry) at time now.
SaveEntry(entry, fresh, now) ==
  LET r == saveDiaryEntryUpsert(rows, entry, fresh, now) IN
  /\ Len(r.rows) <= MaxRows
  /\ rows' = r.rows
  /\ personMentionDetailCache' = invalidatePersonMentionCache(personMentionDetailCache)
  /\ lastQuery' = [fn |-> "saveDiaryEntry", entry |-> entry, fresh |-> fresh,
                   now |-> now, before |-> rows, id |-> r.id]
  /\ UNCHANGED <<disk, people>>

\* entry.id present.
SaveWithId ==
  \E id \in CallerIds, at \in Optional(Times), now \in Times,
     fresh \in UuidIds \ StoredIds(rows) :
    SaveEntry([id |-> <<id>>, createdAt |-> at], fresh, now)

\* entry.id absent.
SaveWithoutId ==
  \E at \in Optional(Times), now \in Times, fresh \in UuidIds \ StoredIds(rows) :
    SaveEntry([id |-> <<>>, createdAt |-> at], fresh, now)

InitUpsert ==
  /\ StoreInit /\ FilesIdle /\ XferIdle /\ ReqsIdle
  /\ TextIdle /\ AuxIdle

NextUpsert ==
  /\ \/ SaveWithId
     \/ SaveWithoutId
  /\ UNCHANGED <<storeVars, fileVars, xferVars, reqs>>
  /\ UNCHANGED auxVars

SpecUpsert == InitUpsert /\ [][NextUpsert]_vars

RowOf(rs, id) == rs[CHOOSE i \in DOMAIN rs : rs[i].id = id]

\* C21: saveDiaryEntry updates in place exactly when entry.id is present and
\* stored; in every other case it inserts a row under the freshly generated
\* id, created at entry.createdAt if given and at the current time otherwise.
C21_UpdateOrInsertFresh ==
  lastQuery.fn = "saveDiaryEntry" =>
    LET entry == lastQuery.entry
        before == lastQuery.before
        existed == entry.id # <<>> /\ entry.id[1] \in StoredIds(before)
    IN  IF existed
        THEN /\ lastQuery.id = entry.id[1]
             /\ StoredIds(rows) = StoredIds(before)
             /\ RowOf(rows, lastQuery.id).createdAt = RowOf(before, lastQuery.id).createdAt
        ELSE /\ lastQuery.id = lastQuery.fresh
             /\ StoredIds(rows) = StoredIds(before) \cup {lastQuery.fresh}
             /\ RowOf(rows, lastQuery.id).createdAt =
                  (IF entry.createdAt # <<>> THEN entry.createdAt[1] ELSE lastQuery.now)

----------------------------------------------------------------------------
\* diary:delete with everything it touches: the entry with its tags, the
\* attachments (rows and files), image_refs and the mention cache.  The
\* handler is followed as one step; on a missing id it has no await.

AttachmentPaths == {"f1"}

\* deleteDiaryEntry clears the mention cache when a row was deleted.
deleteClearsCacheAlways(cache, deleted) == <<>>
deleteClearsCache(cache, deleted) ==
  IF deleted THEN invalidatePersonMentionCache(cache) ELSE cache

\* getAttachments(diaryId).
getAttachments(att, diaryId) == {a \in att.rows : a.diaryId = diaryId}

\* attachments.diary_id REFERENCES diary_entries ON DELETE CASCADE, and
\* deleteAttachmentFiles of the paths read before the delete.
deleteAttachmentsOf(att, diaryId, deleted) ==
  IF ~deleted THEN att
  ELSE [rows |-> att.rows \ getAttachments(att, diaryId),
        files |-> att.files \ {a.filePath : a \in getAttachments(att, diaryId)}]

Snapshot ==
  [entries |-> entries, imageRefs |-> imageRefs, attachments |-> attachments,
   cache |-> personMentionDetailCache]

\* diary:save.
DeleteSpecSave ==
  /\ DiarySave(EntryIds, OrigTexts, {NoFault})
  /\ personMentionDetailCache' = invalidatePersonMentionCache(personMentionDetailCache)
  /\ lastQuery' = [fn |-> "diary:save"]
  /\ UNCHANGED <<disk, rows, people, attachments, imageFiles, jobs, schema>>

\* attachment:add for a stored entry.
AddAttachment ==
  \E e \in DOMAIN entries, f \in AttachmentPaths \ attachments.files :
    /\ attachments' = [rows |-> attachments.rows \cup {[diaryId |-> e, filePath |-> f]},
                       files |-> attachments.files \cup {f}]
    /\ lastQuery' = [fn |-> "attachment:add"]
    /\ UNCHANGED <<storeVars, fileVars, xferVars, reqs, disk, rows, people,
                   personMentionDetailCache, imageFiles, jobs, schema>>

\* stats:personMentionDetails, which fills the cache.
DeleteSpecDetails ==
  /\ GetPersonMentionDetails(Ann.name)
  /\ UNCHANGED <<storeVars, fileVars, xferVars, reqs, auxVars>>

\* ipcMain.handle('diary:delete') for an id that is stored or not.
DiaryDeleteAll ==
  \E id \in EntryIds :
    LET h == DiaryDeleteHandler(entries, imageRefs, lastSync, id, NoFault)
        deleted == id \in DOMAIN entries
    IN  /\ entries' = h.entries
        /\ imageRefs' = h.refs
        /\ lastSync' = h.sync
        /\ lastCall' = h.call
        /\ personMentionDetailCache' = deleteClearsCache(personMentionDetailCache, deleted)
        /\ attachments' = deleteAttachmentsOf(attachments, id, deleted)
        /\ lastQuery' = [fn |-> "diary:delete", id |-> id, result |-> deleted,
                         threw |-> h.call.threw, before |-> Snapshot]
        /\ UNCHANGED <<archives, avatar, fileVars, xferVars, reqs, disk, rows, people,
                       imageFiles, jobs, schema>>

InitDelete ==
  /\ StoreInit /\ FilesIdle /\ XferIdle /\ ReqsIdle /\ AuxIdle
  /\ disk = NoDisk
  /\ rows = <<>>
  /\ people = <<Ann>>
  /\ personMentionDetailCache = <<>>
  /\ lastQuery = NoQuery

NextDelete ==
  \/ DeleteSpecSave
  \/ AddAttachment
  \/ DeleteSpecDetails
  \/ DiaryDeleteAll

SpecDelete == InitDelete /\ [][NextDelete]_vars

\* C22: diary:delete of an id that is not stored returns false, raises no
\* error and leaves the entries with their tags, the attachment rows and
\* files, image_refs and the mention cache as they were.
C22_DeleteMissingChangesNothing ==
  (lastQuery.fn = "diary:delete" /\ lastQuery.id \notin DOMAIN lastQuery.before.entries) =>
    /\ lastQuery.result = FALSE
    /\ lastQuery.threw = "none"
    /\ Snapshot = lastQuery.before

\* A missing id is deleted while entries, image refs, an attachment and a
\* cached mention result exist.
C22_Witness ==
  /\ lastQuery.fn = "diary:delete"
  /\ lastQuery.id \notin DOMAIN lastQuery.before.entries
  /\ entries # EmptyTable
  /\ \E i \in ImageIds : RefCount(imageRefs, i) > 0
  /\ attachments.files # {}
  /\ personMentionDetailCache # <<>>

\* ---------------------------------------------------------------------
\* Schema migrations (migrations.ts).  schema.version is PRAGMA
\* user_version, schema.applied the indices of the migrations whose
\* effects are committed in the store, in the order they were applied.
\* lastRun records the last call of runMigrations: the version it read,
\* the migrations it executed inside its transaction, and whether it
\* returned without throwing.
\* ---------------------------------------------------------------------

migrations ==
  <<"initial schema", "plain_content", "drop fts", "archives",
    "archive images", "fts5 index", "image_refs">>

\* The indices 0 .. v-1: what a store at version v has had applied.
AppliedUpTo(v) == [k \in 1..v |-> k - 1]

\* The loop starts at 0 instead of the stored version.
runMigrationsFromZero(s, failAt) ==
  IF s.version >= Len(migrations)
  THEN [s EXCEPT !.runs = @ + 1,
                 !.lastRun = [start |-> s.version, ran |-> <<>>, ok |-> TRUE]]
  ELSE LET pending == [k \in 1..Len(migrations) |-> k - 1]
       IN [s EXCEPT !.version = Len(migrations),
                    !.applied = @ \o pending,
                    !.runs = @ + 1,
                    !.lastRun = [start |-> s.version, ran |-> pending,
                                 ok |-> TRUE]]

\* runMigrations: failAt is the index of the migration that throws in this
\* run (Len(migrations) when none does).  The loop and the user_version
\* writes are one transaction, so a throw rolls all of them back.
runMigrations(s, failAt) ==
  IF s.version >= Len(migrations)
  THEN [s EXCEPT !.runs = @ + 1,
                 !.lastRun = [start |-> s.version, ran |-> <<>>, ok |-> TRUE]]
  ELSE LET pending ==
             [k \in 1..(Len(migrations) - s.version) |-> s.version + k - 1]
       IN IF failAt \in s.version..(Len(migrations) - 1)
          THEN [s EXCEPT !.failed = @ + 1,
                         !.runs = @ + 1,
                         !.lastRun =
                           [start |-> s.version,
                            ran |-> SubSeq(pending, 1, failAt - s.version),
                            ok |-> FALSE]]
          ELSE [s EXCEPT !.version = Len(migrations),
                         !.applied = @ \o pending,
                         !.runs = @ + 1,
                         !.lastRun = [start |-> s.version, ran |-> pending,
                                      ok |-> TRUE]]

\* initDatabase on a store where every migration succeeds.
Startup ==
  /\ schema.runs < MaxCount + MaxFaults
  /\ schema' = runMigrations(schema, Len(migrations))
  /\ UNCHANGED <<attachments, imageFiles, jobs>>

\* initDatabase where one of the pending migrations throws.
StartupMigrationThrows ==
  /\ schema.runs < MaxCount + MaxFaults
  /\ schema.failed < MaxFaults
  /\ \E failAt \in schema.version..(Len(migrations) - 1) :
       schema' = runMigrations(schema, failAt)
  /\ UNCHANGED <<attachments, imageFiles, jobs>>

\* reopenDatabase after an import: the store file is replaced by the one
\* of the backup, at whatever version the backup was written, and
\* initDatabase runs the migrations on it.
StartupOnImportedStore ==
  /\ schema.runs < MaxCount + MaxFaults
  /\ \E v \in 0..(Len(migrations) + 1) :
       schema' = runMigrations([schema EXCEPT !.version = v,
                                              !.applied = AppliedUpTo(v)],
                               Len(migrations))
  /\ UNCHANGED <<attachments, imageFiles, jobs>>

\* The store may be new, left by any earlier build, or written by a build
\* that knows one migration more.
InitMigrate ==
  /\ StoreInit /\ FilesIdle /\ XferIdle /\ ReqsIdle /\ TextIdle
  /\ attachments = NoAttachments
  /\ imageFiles = {}
  /\ jobs = <<>>
  /\ \E v \in 0..(Len(migrations) + 1) :
       schema = [NoSchema EXCEPT !.version = v, !.applied = AppliedUpTo(v)]

NextMigrate ==
  /\ \/ Startup
     \/ StartupMigrationThrows
     \/ StartupOnImportedStore
  /\ UNCHANGED <<storeVars, fileVars, xferVars, reqs, textVars>>

SpecMigrate == InitMigrate /\ [][NextMigrate]_vars

Ascending(q) == \A a, b \in DOMAIN q : a < b => q[a] < q[b]

MigrationsPendingOnly ==
  /\ Ascending(schema.applied)
  /\ Ascending(schema.lastRun.ran)
  /\ \A k \in DOMAIN schema.lastRun.ran :
       schema.lastRun.ran[k] >= schema.lastRun.start
  /\ (schema.runs > 0 /\ ~schema.lastRun.ok) =>
       schema.version = schema.lastRun.start

\* C23 as stated: runMigrations applies only the migrations at or above
\* the stored version, in ascending order, none twice, and after every run
\* that returns normally the stored version equals the number of
\* migrations.
C23_VersionEqualsCount ==
  /\ MigrationsPendingOnly
  /\ (schema.runs > 0 /\ schema.lastRun.ok) =>
       schema.version = Len(migrations)

\* C23 amended: runMigrations applies only the migrations at or above the
\* stored version, in ascending order, none twice; a run that throws
\* leaves the version as it was; after a run that returns normally the
\* stored version is the number of migrations when the store started at
\* or below it, and is left unchanged when the store was already above.
C23_PendingOnceVersionAtLeastCount ==
  /\ MigrationsPendingOnly
  /\ (schema.runs > 0 /\ schema.lastRun.ok) =>
       /\ schema.version >= Len(migrations)
       /\ schema.lastRun.start <= Len(migrations) =>
            schema.version = Len(migrations)
       /\ schema.lastRun.start > Len(migrations) =>
            schema.version = schema.lastRun.start

\* A startup after a failed migration has applied the pending migrations
\* of a store that was part-way through the list.
C23_Witness ==
  /\ schema.failed > 0
  /\ schema.lastRun.ok
  /\ schema.lastRun.start > 0
  /\ schema.lastRun.ran # <<>>

\* ---------------------------------------------------------------------
\* Eviction from the mention-detail cache (tags.ts 737-751, 848-857).
\* Seven people, so that a result can be stored into a full cache.  The
\* record of the last request keeps, beside the result, the cached keys
\* in order of their last use (oldest first), where a use is a request
\* served from the cache or a result stored.
\* ---------------------------------------------------------------------

LruPeople ==
  << [name |-> <<"A">>, alias |-> <<>>],
     [name |-> <<"B">>, alias |-> <<>>],
     [name |-> <<"E">>, alias |-> <<>>],
     [name |-> <<"X">>, alias |-> <<>>],
     [name |-> <<"Y">>, alias |-> <<>>],
     [name |-> <<"A", "X">>, alias |-> <<>>],
     [name |-> <<"A", "Y">>, alias |-> <<>>] >>

CacheKeys(cache) == {cache[i].key : i \in DOMAIN cache}

NoUses == [fn |-> "none", uses |-> <<>>, hits |-> 0, seen |-> 0]

\* The keys of `uses` still cached, with `key` moved to the end.
Touch(uses, cache, key) ==
  Append(SelectSeq(uses, LAMBDA k : k # key /\ k \in CacheKeys(cache)), key)

\* The key the cache uses for a person name.
LruKey(personName) == toLocaleLowerCase(personName)

\* The record of a request for `key`, given the cache it left.
LruRecord(i, key, hit, before, after) ==
  [fn |-> "details", key |-> key, hit |-> hit,
   before |-> CacheKeys(before),
   leastRecent |-> IF lastQuery.uses = <<>> THEN <<>>
                   ELSE <<Head(lastQuery.uses)>>,
   uses |-> Touch(lastQuery.uses, after, key),
   hits |-> IF hit THEN lastQuery.hits + 1 ELSE lastQuery.hits,
   seen |-> IF i > lastQuery.seen THEN i ELSE lastQuery.seen]

\* stats:personMentionDetails for the i-th person of the archive list.
\* People are first asked for in the order of the list; at most MaxCount
\* requests are served from the cache.
LruDetails(i, hit) ==
  /\ i <= lastQuery.seen + 1
  /\ hit => lastQuery.hits < MaxCount
  /\ personMentionDetailCache' =
       getPersonMentionDetails(people, rows, personMentionDetailCache,
                               people[i].name, 0, DefaultMentionLimit).cache
  /\ lastQuery' = LruRecord(i, LruKey(people[i].name), hit,
                            personMentionDetailCache, personMentionDetailCache')
  /\ UNCHANGED <<disk, rows, people>>

LruHit ==
  \E i \in DOMAIN people :
    /\ LruKey(people[i].name) \in CacheKeys(personMentionDetailCache)
    /\ LruDetails(i, TRUE)

LruMiss ==
  \E i \in DOMAIN people :
    /\ LruKey(people[i].name) \notin CacheKeys(personMentionDetailCache)
    /\ LruDetails(i, FALSE)

InitLru ==
  /\ StoreInit /\ FilesIdle /\ XferIdle /\ ReqsIdle /\ AuxIdle
  /\ disk = NoDisk
  /\ people = LruPeople
  /\ rows = <<[id |-> 1, title |-> <<>>, plainContent |-> <<"A">>]>>
  /\ personMentionDetailCache = <<>>
  /\ lastQuery = NoUses

NextLru ==
  /\ \/ LruHit
     \/ LruMiss
  /\ UNCHANGED <<storeVars, fileVars, xferVars, reqs, auxVars>>

SpecLru == InitLru /\ [][NextLru]_vars

\* C24: the cache never holds more than PERSON_MENTION_CACHE_LIMIT
\* entries, and a result stored under a new key into a full cache evicts
\* exactly the least recently used key, a request served from the cache
\* counting as a use.
C24_EvictsLeastRecentlyUsed ==
  /\ Len(personMentionDetailCache) <= PERSON_MENTION_CACHE_LIMIT
  /\ (/\ lastQuery.fn = "details"
      /\ ~lastQuery.hit
      /\ Cardinality(lastQuery.before) >= PERSON_MENTION_CACHE_LIMIT)
       => lastQuery.before \ CacheKeys(personMentionDetailCache)
            = {lastQuery.leastRecent[1]}

C24_SizeBound ==
  Len(personMentionDetailCache) <= PERSON_MENTION_CACHE_LIMIT

\* ---------------------------------------------------------------------
\* Longest match (tags.ts 664-677, 700-729): one person whose name is
\* "XY" beside a person with a shorter alias that the name starts with,
\* ends with, or does not contain.
\* ---------------------------------------------------------------------

Xy == [name |-> <<"X", "Y">>, alias |-> <<>>]

ShortAliasPeople ==
  { [name |-> <<"A">>, alias |-> << <<"X">> >>],
    [name |-> <<"A">>, alias |-> << <<"Y">> >>],
    [name |-> <<"A">>, alias |-> << <<"Y", "X">> >>] }

LongestPeople ==
  {<<Xy, q>> : q \in ShortAliasPeople} \cup {<<q, Xy>> : q \in ShortAliasPeople}

InitLongest ==
  /\ StoreInit /\ FilesIdle /\ XferIdle /\ ReqsIdle /\ AuxIdle
  /\ disk = NoDisk
  /\ people \in LongestPeople
  /\ rows \in {<<[id |-> 1, title |-> <<>>, plainContent |-> tx]>> :
                 tx \in TextsUpTo(MaxText)}
  /\ personMentionDetailCache = <<>>
  /\ lastQuery = NoQuery

NextLongest ==
  /\ \/ GetPersonMentionStats
     \/ \E i \in DOMAIN people : GetPersonMentionDetails(people[i].name)
  /\ UNCHANGED <<storeVars, fileVars, xferVars, reqs, auxVars>>

SpecLongest == InitLongest /\ [][NextLongest]_vars

\* The matches a and b of one scan share a position of the text.
Overlap(a, b) ==
  /\ a.index < b.index + Len(b.key)
  /\ b.index < a.index + Len(a.key)

\* The person whose name, of more than one character, is the key.
NamedBy(persons, key) ==
  {i \in DOMAIN persons : /\ toLocaleLowerCase(persons[i].name) = key
                          /\ Len(key) > 1}

MaxItems == 4

IMAGE_SAVE_CONCURRENCY == 2

Outcomes == {"ok", "failed"}

Batch(kind, n, cursor, runners, outcome, settled) ==
  [kind |-> kind, n |-> n, cursor |-> cursor, runners |-> runners,
   inFlight |-> {runners[r] : r \in DOMAIN runners} \ {0},
   outcome |-> outcome, settled |-> settled]

\* runWithConcurrency up to its await: each of the `limit` runners takes
\* the item at the cursor and starts its worker.
runWithConcurrency(n, concurrency) ==
  IF n = 0
  THEN Batch("insert", 0, 1, <<>>, <<>>, TRUE)
  ELSE LET least == IF concurrency <= n THEN concurrency ELSE n
            limit == Max(1, least)
       IN
       Batch("insert", n, limit + 1, [r \in 1..limit |-> r],
             [i \in 1..n |-> <<>>], FALSE)

\* insertImagesWithLimit: a drop, a paste or a file pick of n images.
InsertImagesWithLimit ==
  /\ jobs = <<>>
  /\ \E n \in 0..MaxItems :
       jobs' = <<runWithConcurrency(n, IMAGE_SAVE_CONCURRENCY)>>
  /\ UNCHANGED <<attachments, imageFiles, schema>>

\* The worker a runner awaits settles (insertImage catches its own
\* failures); the runner takes the next item at the cursor, or returns when
\* the cursor is past the end.  Promise.all resolves with the last runner.
WorkerSettles ==
  /\ jobs # <<>>
  /\ jobs[1].kind = "insert"
  /\ \E r \in DOMAIN jobs[1].runners, o \in Outcomes :
       LET b == jobs[1]
           i == b.runners[r]
           next == IF b.cursor <= b.n THEN b.cursor ELSE 0
           runners == [b.runners EXCEPT ![r] = next]
       IN  /\ i # 0
           /\ jobs' = <<Batch("insert", b.n, b.cursor + 1, runners,
                              [b.outcome EXCEPT ![i] = Append(@, o)],
                              \A q \in DOMAIN runners : runners[q] = 0)>>
  /\ UNCHANGED <<attachments, imageFiles, schema>>

\* cleanupReleasedImages up to its await: deleteImageById is called for
\* every id of the set at once.
cleanupReleasedImages(n) ==
  IF n = 0
  THEN Batch("release", 0, 1, <<>>, <<>>, TRUE)
  ELSE Batch("release", n, n + 1, [r \in 1..n |-> r],
             [i \in 1..n |-> <<>>], FALSE)

CleanupReleasedImages ==
  /\ jobs = <<>>
  /\ \E n \in 0..MaxItems : jobs' = <<cleanupReleasedImages(n)>>
  /\ UNCHANGED <<attachments, imageFiles, schema>>

\* One deleteImageById settles, fulfilled or rejected; Promise.allSettled
\* resolves with the last one.
DeleteSettles ==
  /\ jobs # <<>>
  /\ jobs[1].kind = "release"
  /\ \E r \in DOMAIN jobs[1].runners, o \in Outcomes :
       LET b == jobs[1]
           i == b.runners[r]
           runners == [b.runners EXCEPT ![r] = 0]
       IN  /\ i # 0
           /\ jobs' = <<Batch("release", b.n, b.cursor, runners,
                              [b.outcome EXCEPT ![i] = Append(@, o)],
                              \A q \in DOMAIN runners : runners[q] = 0)>>
  /\ UNCHANGED <<attachments, imageFiles, schema>>

\* The caller's await returns; the next batch may start.
BatchReturns ==
  /\ jobs # <<>>
  /\ jobs[1].settled
  /\ jobs' = <<>>
  /\ UNCHANGED <<attachments, imageFiles, schema>>

InitBatch ==
  /\ StoreInit /\ FilesIdle /\ XferIdle /\ ReqsIdle /\ TextIdle /\ AuxIdle

NextBatch ==
  /\ \/ InsertImagesWithLimit
     \/ WorkerSettles
     \/ CleanupReleasedImages
     \/ DeleteSettles
     \/ BatchReturns
  /\ UNCHANGED <<storeVars, fileVars, xferVars, reqs, textVars>>

SpecBatch == InitBatch /\ [][NextBatch]_vars

\* The batch keeps to the limit, processes no item twice, and its promise
\* has settled exactly when every item has been processed.
BoundedPool(b) ==
  /\ Cardinality(b.inFlight) <= IMAGE_SAVE_CONCURRENCY
  /\ \A i \in 1..b.n : Len(b.outcome[i]) <= 1
  /\ b.settled <=> \A i \in 1..b.n : Len(b.outcome[i]) = 1

\* C26: in a batch of image saves or of image deletions, never more than
\* IMAGE_SAVE_CONCURRENCY file operations of the batch are in flight, every
\* item is processed exactly once, and the batch completes when all items
\* are processed.
C26_BoundedPoolBothBatches ==
  jobs # <<>> => BoundedPool(jobs[1])

\* The same for batches of image saves alone.
C26_BoundedPoolInserts ==
  (jobs # <<>> /\ jobs[1].kind = "insert") => BoundedPool(jobs[1])

\* ---------------------------------------------------------------------
\* Image files on disk against image_refs.  imageFiles is the set of
\* image ids that have a file.  jobs holds the file work in flight: the
\* ids whose deleteImageById has been called and has not settled, the
\* snapshot image:cleanup took of the referenced ids, the ids saveImage
\* has handed out, and the last file deletion with the number of stored
\* fields that referenced the id when the file went.
\* ---------------------------------------------------------------------

NoFileJobs == [deleting |-> {}, cleanup |-> <<>>, created |-> {}, last |-> <<>>]

\* getAllReferencedImageIds: the ids of all rows of image_refs.
getAllReferencedImageIds(refs) == DOMAIN refs

\* cleanupUnusedImages: every file whose id is not in usedIds is deleted.
cleanupUnusedImages(files, usedIds) == files \cap usedIds

Deleted(ids) ==
  IF ids = {} THEN jobs.last
  ELSE <<[ids |-> ids,
          referenced |-> {i \in ids : FieldCount(i) > 0}]>>

\* image:save-bytes: saveImage writes the file under a new id.
FilesImageSave ==
  /\ \E i \in ImageIds \ jobs.created :
       /\ imageFiles' = imageFiles \cup {i}
       /\ jobs' = [jobs EXCEPT !.created = @ \cup {i}]
  /\ UNCHANGED <<storeVars, attachments, schema>>

\* diary:save up to its await: the entry is saved, image_refs synced, and
\* cleanupReleasedImages has called deleteImageById for every released id.
\* Contents refer to images that were saved at some time.
FilesDiarySave ==
  /\ DiarySave(OneEntry, OrigTexts, {NoFault})
  /\ DOMAIN imageRefs' \subseteq jobs.created
  /\ jobs' = [jobs EXCEPT !.deleting = @ \cup lastCall'.released]
  /\ UNCHANGED <<imageFiles, attachments, schema>>

\* diary:delete up to its await.
FilesDiaryDelete ==
  /\ DiaryDelete(OneEntry, {NoFault})
  /\ jobs' = [jobs EXCEPT !.deleting = @ \cup lastCall'.released]
  /\ UNCHANGED <<imageFiles, attachments, schema>>

\* One deleteImageById settles: the file of the id is gone.
DeleteImageSettles ==
  /\ \E i \in jobs.deleting :
       /\ imageFiles' = imageFiles \ {i}
       /\ jobs' = [jobs EXCEPT !.deleting = @ \ {i},
                               !.last = Deleted({i} \cap imageFiles)]
  /\ UNCHANGED <<storeVars, attachments, schema>>

\* image:cleanup up to the first await of cleanupUnusedImages: the
\* referenced ids have been read from image_refs.
ImageCleanupStarts ==
  /\ jobs.cleanup = <<>>
  /\ jobs' = [jobs EXCEPT !.cleanup = <<getAllReferencedImageIds(imageRefs)>>]
  /\ UNCHANGED <<storeVars, imageFiles, attachments, schema>>

\* cleanupUnusedImages after readdir: the files outside the ids read
\* at the start are deleted, and the handler returns.
ImageCleanupDeletes ==
  /\ jobs.cleanup # <<>>
  /\ imageFiles' = cleanupUnusedImages(imageFiles, jobs.cleanup[1])
  /\ jobs' = [jobs EXCEPT !.cleanup = <<>>,
                          !.last = Deleted(imageFiles \ jobs.cleanup[1])]
  /\ UNCHANGED <<storeVars, attachments, schema>>

InitFiles ==
  /\ StoreInit /\ FilesIdle /\ XferIdle /\ ReqsIdle /\ TextIdle
  /\ attachments = NoAttachments
  /\ imageFiles = {}
  /\ jobs = NoFileJobs
  /\ schema = NoSchema

NextFiles ==
  /\ \/ FilesImageSave
     \/ FilesDiarySave
     \/ FilesDiaryDelete
     \/ DeleteImageSettles
     \/ ImageCleanupStarts
     \/ ImageCleanupDeletes
  /\ UNCHANGED <<fileVars, xferVars, reqs, textVars>>

SpecFiles == InitFiles /\ [][NextFiles]_vars

\* C27: every image id with a reference count of at least 1 has its
\* file, and no file is deleted while a stored field references its id.
C27_ReferencedImagesKeepFiles ==
  /\ \A i \in ImageIds : RefCount(imageRefs, i) >= 1 => i \in imageFiles
  /\ jobs.last # <<>> => jobs.last[1].referenced = {}

\* The second half alone: no file is deleted while a stored field
\* references its id.
C27_NoReferencedFileDeleted ==
  jobs.last # <<>> => jobs.last[1].referenced = {}

\* ---------------------------------------------------------------------
\* archives:save in flight twice.  A save whose mainImage arrives as a
\* data URL awaits saveImage inside archives.save, after the handler has
\* read `previous` and before the row is written; a save whose image is a
\* path has nothing to wait for and runs through.  jobs holds the saves
\* that are awaiting saveImage: the archive passed in (mainImage already
\* as the path saveImage will return) and the `previous` the handler read.
\* ---------------------------------------------------------------------

RaceArchives == {"a1", "a2"}

\* archives:save from the resumption of archives.save to the handler's
\* syncImageRefs, with the `previous` read before the await.
ArchivesSaveResumed(arcs, refs, sync, archive, previous, fresh) ==
  LET sv == archivesSave(arcs, archive, fresh, 0)
      saved == archivesGet(sv.archives, sv.id)
      oldIds == collectArchiveImageIds(previous)
      newIds == collectArchiveImageIds(saved)
      r == syncImageRefs(refs, oldIds, newIds, 0)
  IN  IF sv.threw
      THEN [archives |-> sv.archives, refs |-> refs, sync |-> sync,
            call |-> CallRecord("archives:save", sv.id, "save", <<>>, oldIds)]
      ELSE [archives |-> sv.archives, refs |-> r.refs,
            sync |-> SyncRecord(refs, oldIds, newIds, 0, r),
            call |-> CallRecord("archives:save", sv.id, "none", r.released, oldIds)]

\* The ids saveImage is about to hand to the saves in flight.
IdsBeingSaved ==
  UNION {Range(collectImageIdsFromText(jobs[k].archive.mainImage)) :
           k \in DOMAIN jobs}

\* archives:save with the image given as a path: the handler runs to its
\* syncImageRefs without waiting for anything.  A path names an image
\* that has been saved, never one whose saveImage is still running.
RaceSaveDirect ==
  /\ \A i \in ImageIds : RefCount(imageRefs, i) <= MaxCount
  /\ ArchivesSave(RaceArchives, OrigTexts, {<<>>}, {NoFault})
  /\ DOMAIN imageRefs' \cap IdsBeingSaved = {}
  /\ UNCHANGED <<attachments, imageFiles, jobs, schema>>

\* The image ids in use: referenced, or about to be stored by a save in
\* flight.  saveImage names the new file by an id outside them.
IdsInUse ==
  DOMAIN imageRefs
    \cup UNION {Range(collectImageIdsFromText(archives[a].mainImage)) :
                  a \in DOMAIN archives}
    \cup IdsBeingSaved

\* archives:save of a stored archive, or of a new one, with the image given
\* as a data URL, up to the await of saveImage: `previous` has been read,
\* the row has not been written.
RaceSaveStarts ==
  /\ Len(jobs) < NumRequests
  /\ \E id \in DOMAIN archives \cup {NoId}, m \in OrigTexts \ {<<>>} :
       /\ Range(collectImageIdsFromText(m)) \cap IdsInUse = {}
       /\ jobs' = Append(jobs,
                 [archive |-> [id |-> id, mainImage |-> m, images |-> <<>>],
                  previous |-> IF id # NoId THEN archivesGet(archives, id)
                               ELSE <<>>])
  /\ UNCHANGED <<storeVars, attachments, imageFiles, schema>>

\* saveImage has settled for one of the saves in flight: the row is
\* written and image_refs synced against the `previous` read at the start.
RaceSaveResumes ==
  /\ \E k \in DOMAIN jobs :
       \E fresh \in (IF jobs[k].archive.id = NoId
                     THEN RaceArchives \ DOMAIN archives
                     ELSE {jobs[k].archive.id}) :
         LET h == ArchivesSaveResumed(archives, imageRefs, lastSync,
                                      jobs[k].archive, jobs[k].previous, fresh)
         IN  /\ archives' = h.archives
             /\ imageRefs' = h.refs
             /\ lastSync' = h.sync
             /\ lastCall' = h.call
             /\ jobs' = [j \in 1..(Len(jobs) - 1) |->
                           IF j < k THEN jobs[j] ELSE jobs[j + 1]]
  /\ UNCHANGED <<entries, avatar, attachments, imageFiles, schema>>

InitRace ==
  /\ StoreInit /\ FilesIdle /\ XferIdle /\ ReqsIdle /\ TextIdle /\ AuxIdle

NextRace ==
  /\ \/ RaceSaveDirect
     \/ RaceSaveStarts
     \/ RaceSaveResumes
  /\ UNCHANGED <<fileVars, xferVars, reqs, textVars>>

SpecRace == InitRace /\ [][NextRace]_vars

\* C28: once the archive saves in flight have completed, every image id's
\* reference count is the number of stored fields that reference it.
C28_CountsMatchAfterConcurrentSaves ==
  jobs = <<>> => \A i \in ImageIds : RefCount(imageRefs, i) = FieldCount(i)

\* ---------------------------------------------------------------------
\* The statistics against the details, over the stores of SpecMention.
\* ---------------------------------------------------------------------

\* C29: the count getPersonMentionStats reports for a person is the sum of
\* mentionCount over all entries getPersonMentionDetails returns for that
\* person, and the person is absent from the statistics exactly when the
\* details list is empty.
C29_StatsEqualDetailSums ==
  lastQuery.fn = "details" =>
    LET es == lastQuery.result.entries
        stats == getPersonMentionStats(people, rows)
        mine == SelectSeq(stats,
                          LAMBDA it : it.name = lastQuery.result.personName)
    IN  /\ lastQuery.result.total = Len(es)
        /\ (mine = <<>>) <=> (es = <<>>)
        /\ mine # <<>> =>
             mine[1].count = SumSeq([e \in DOMAIN es |-> es[e].mentionCount])

\* ---------------------------------------------------------------------
\* The version-7 migration (migrations.ts 224-288) on a store written by
\* a build without image_refs, followed by deletions through the facade.
\* ---------------------------------------------------------------------

\* extractImageIdsForMigration: the Set of ids in one value.
extractImageIdsForMigration(value) == SeqRange(extractImageIds(value))

\* The backfill: addImageRefs is called once per diary content, once per
\* main_image, once per element of images, and once for the avatar; each
\* call adds one to every id of its Set.
BackfillCount(ents, arcs, av, id) ==
  Cardinality({e \in DOMAIN ents : id \in extractImageIdsForMigration(ents[e].content)})
    + Cardinality({a \in DOMAIN arcs :
                     id \in extractImageIdsForMigration(arcs[a].mainImage)})
    + Cardinality({ak \in {<<a, k>> : a \in DOMAIN arcs, k \in 1..MaxLen + 1} :
                     /\ ak[2] \in DOMAIN arcs[ak[1]].images
                     /\ id \in extractImageIdsForMigration(
                                 <<arcs[ak[1]].images[ak[2]]>>)})
    + (IF id \in extractImageIdsForMigration(av) THEN 1 ELSE 0)

v7Backfill(ents, arcs, av) ==
  LET ids == {id \in ImageIds : BackfillCount(ents, arcs, av, id) > 0}
  IN  [id \in ids |-> BackfillCount(ents, arcs, av, id)]

OrigImageLists == SeqsUpTo([id : ImageIds, kind : {"orig"}], MaxLen)

LegacyEntries ==
  {EmptyTable} \cup {[e \in OneEntry |-> [content |-> c, tags |-> {}]] : c \in OrigTexts}

LegacyArchives ==
  {EmptyTable}
    \cup {[a \in ArchiveIds |-> [mainImage |-> m, images |-> im]] :
            m \in OrigTexts, im \in OrigImageLists}

\* Startup of this build on the legacy store: runMigrations applies
\* migration 7, which creates and fills image_refs.
MigrateV7 ==
  /\ schema.version < Len(migrations)
  /\ schema' = runMigrations(schema, Len(migrations))
  /\ imageRefs' = v7Backfill(entries, archives, avatar)
  /\ UNCHANGED <<entries, archives, avatar, lastCall, lastSync,
                 attachments, imageFiles, jobs>>

BackfillDiaryDelete ==
  /\ schema.version = Len(migrations)
  /\ DiaryDelete(OneEntry, {NoFault})
  /\ UNCHANGED auxVars

BackfillArchivesDelete ==
  /\ schema.version = Len(migrations)
  /\ ArchivesDelete(ArchiveIds, {NoFault})
  /\ UNCHANGED auxVars

BackfillAvatarClear ==
  /\ schema.version = Len(migrations)
  /\ SettingsSet({<<>>}, {NoFault})
  /\ UNCHANGED auxVars

InitBackfill ==
  /\ FilesIdle /\ XferIdle /\ ReqsIdle /\ TextIdle
  /\ entries \in LegacyEntries
  /\ archives \in LegacyArchives
  /\ avatar \in OrigTexts
  /\ imageRefs = EmptyRefs
  /\ lastCall = NoCall
  /\ lastSync = NoSync
  /\ attachments = NoAttachments
  /\ imageFiles = {}
  /\ jobs = <<>>
  /\ schema = [NoSchema EXCEPT !.version = Len(migrations) - 1,
                               !.applied = AppliedUpTo(Len(migrations) - 1)]

NextBackfill ==
  /\ \/ MigrateV7
     \/ BackfillDiaryDelete
     \/ BackfillArchivesDelete
     \/ BackfillAvatarClear
  /\ UNCHANGED <<fileVars, xferVars, reqs, textVars>>

SpecBackfill == InitBackfill /\ [][NextBackfill]_vars

\* What saving each stored entry, archive and avatar once through the
\* facade gives an id: one per entry, archive or setting that holds it.
OwnerCount(id) ==
  Cardinality(EntryFieldsWith(id))
    + Cardinality({a \in DOMAIN archives :
                     id \in SeqRange(collectArchiveImageIds(archives[a]))})
    + Cardinality(AvatarFieldsWith(id))

\* C30: right after the version-7 migration every count is what the
\* facade would have counted for the stored data, and once every entry and
\* archive is deleted and the avatar cleared through the facade, image_refs
\* is empty.
C30_BackfillMatchesFacade ==
  schema.version = Len(migrations) =>
    /\ lastCall = NoCall =>
         \A id \in ImageIds : RefCount(imageRefs, id) = OwnerCount(id)
    /\ (entries = EmptyTable /\ archives = EmptyTable /\ avatar = <<>>) =>
         imageRefs = EmptyRefs

\* The second half alone: a migrated store emptied through the facade has
\* an empty image_refs.
C30_EmptiedStoreHasNoRefs ==
  (/\ schema.version = Len(migrations)
   /\ entries = EmptyTable /\ archives = EmptyTable /\ avatar = <<>>)
    => imageRefs = EmptyRefs
====
